---- MODULE Spec2Model ----
(***************************************************************************)
(* Out-of-order core of GranthyGu/RISC-V-CPU: the load/store queue          *)
(* (src/lsq.py), the reservation station (src/src/RS.py) and the pipelined  *)
(* divider (src/src/div_alu.py).                                            *)
(*                                                                          *)
(* Every module is a synchronous circuit: one call of its build() body is   *)
(* one tick.  All register reads of a tick see the values committed by the  *)
(* previous tick, all register writes are committed together at the end of  *)
(* the tick.  A tick is therefore one action: it takes the registers and    *)
(* the values popped from the ports and yields the next registers.          *)
(*                                                                          *)
(* The three modules share no register; only the top level (not part of     *)
(* these sources) wires their ports.  A behaviour of the model follows the  *)
(* registers of one module, named by `unit`, from reset.                    *)
(*                                                                          *)
(* Bits(1) values are BOOLEAN.  Fields that are only carried to an output   *)
(* and never steer a register (register numbers rs1/rs2, imm, the cache     *)
(* address and write data) are not part of the LSQ and RS state below.      *)
(***************************************************************************)
EXTENDS Integers, Sequences, FiniteSets, TLC

VARIABLES
    unit,      \* which module this behaviour follows: "LSQ", "RS" or "DIV"
    script,    \* port values the environment still presents in a fixed order
    tick,      \* number of ticks taken after the script ran out
    lsq,       \* registers of LSQ.build
    lsq_in,    \* port values popped by the latest LSQ tick
    lsq_out,   \* wires driven by the latest LSQ tick
    rs,        \* registers of RS.build
    rs_in,     \* port values popped by the latest RS tick
    rs_out,    \* wires driven by the latest RS tick
    div,       \* registers of DIV_ALU.build and the arrays it reports through
    div_in,    \* port values popped by the latest DIV tick
    div_hist   \* history: operations fed so far, those a flush has caught,
               \* the tick each was fed on, its operands, the outputs,
               \* the ticks done

vars == <<unit, script, tick, lsq, lsq_in, lsq_out, rs, rs_in, rs_out, div, div_in, div_hist>>

----------------------------------------------------------------------------
(* Bound of the exploration: after its script the environment presents     *)
(* arbitrary port values for this many ticks.                              *)

MaxTickLSQ == 2
MaxTickRS == 2
MaxTickDIV == 4

Merge(f, g) == [x \in (DOMAIN f) \cup (DOMAIN g) |-> IF x \in DOMAIN f THEN f[x] ELSE g[x]]

----------------------------------------------------------------------------
(* src/lsq.py *)

LSQ_SIZE == 8

LsqIdx == 0 .. (LSQ_SIZE - 1)

\* registers after construction: every RegArray starts at 0
LSQ_Init ==
    [ head |-> 0, tail |-> 0, lsq_size |-> 0,
      allocated_array        |-> [i \in LsqIdx |-> FALSE],
      rob_index_array        |-> [i \in LsqIdx |-> 0],
      is_load_array          |-> [i \in LsqIdx |-> FALSE],
      is_store_array         |-> [i \in LsqIdx |-> FALSE],
      rs1_value_array        |-> [i \in LsqIdx |-> 0],
      has_rs1_array          |-> [i \in LsqIdx |-> FALSE],
      rs1_recorder_array     |-> [i \in LsqIdx |-> 0],
      has_rs1_recorder_array |-> [i \in LsqIdx |-> FALSE],
      rs2_value_array        |-> [i \in LsqIdx |-> 0],
      has_rs2_array          |-> [i \in LsqIdx |-> FALSE],
      rs2_recorder_array     |-> [i \in LsqIdx |-> 0],
      has_rs2_recorder_array |-> [i \in LsqIdx |-> FALSE],
      ready_array            |-> [i \in LsqIdx |-> FALSE] ]

\* head_ptr.bitcast(Bits(32))[0:2]
LSQ_head_idx(q) == q.head % 8
LSQ_tail_idx(q) == q.tail % 8

\* same-tick wake-up of the incoming operands
LSQ_rs1_coincidence(in) ==
    in.rs1_has_recorder /\ (in.rs1_recorder = in.lsq_recorder) /\ in.lsq_modify_recorder
\* the allocation-time flag when the broadcast of the same tick is ignored
LSQ_rs1_has_recorder_late(in) == in.rs1_has_recorder
LSQ_rs1_has_recorder(in) ==
    IF LSQ_rs1_coincidence(in) THEN FALSE ELSE in.rs1_has_recorder
LSQ_rs1_value(in) ==
    IF LSQ_rs1_coincidence(in) THEN in.lsq_modify_value ELSE in.rs1_value

LSQ_rs2_coincidence(in) ==
    in.rs2_has_recorder /\ (in.rs2_recorder = in.lsq_recorder) /\ in.lsq_modify_recorder
\* variant: the rs2 flag taken from the rs1 port
LSQ_rs2_has_recorder_of_rs1(in) ==
    IF LSQ_rs2_coincidence(in) THEN FALSE ELSE in.rs1_has_recorder
LSQ_rs2_has_recorder(in) ==
    IF LSQ_rs2_coincidence(in) THEN FALSE ELSE in.rs2_has_recorder
LSQ_rs2_value(in) ==
    IF LSQ_rs2_coincidence(in) THEN in.lsq_modify_value ELSE in.rs2_value

\* lsq_write and lsq_modify_recorder are masked by the flush line
LSQ_lsq_write(in) == in.lsq_write /\ ~in.clear
\* variant: the broadcast not masked by the flush line
LSQ_lsq_modify_recorder_unmasked(in) == in.lsq_modify_recorder
LSQ_lsq_modify_recorder(in) == in.lsq_modify_recorder /\ ~in.clear

\* line 126 alone: the tail step without the wrap of line 127
LSQ_updated_tail_ptr_nowrap(q) == q.tail + 1
LSQ_updated_tail_ptr(q) ==
    IF q.tail + 1 = LSQ_SIZE THEN 0 ELSE q.tail + 1
LSQ_updated_lsq_size(q) == q.lsq_size + 1
\* variant: a queue that never reports full
LSQ_lsq_full_never(q) == FALSE

LSQ_lsq_full(q) == LSQ_updated_lsq_size(q) = LSQ_SIZE
LSQ_write_valid(q, in) == LSQ_lsq_write(in) /\ ~LSQ_lsq_full(q)

\* ready bit of the entry written at tail
LSQ_alloc_ready(in) ==
    ~((in.rs1_valid /\ LSQ_rs1_has_recorder(in)) \/ (in.rs2_valid /\ LSQ_rs2_has_recorder(in)))

\* the store gate and the issue condition of the head entry
\* a store gate that is always open
LSQ_can_execute_store_open(q, in) == TRUE
LSQ_can_execute_store(q, in) ==
    q.rob_index_array[LSQ_head_idx(q)] = in.rob_head_index
\* variant: the store gate applied to every head entry
LSQ_condition_met_gated(q, in) == LSQ_can_execute_store(q, in)

LSQ_condition_met(q, in) ==
    (~q.is_store_array[LSQ_head_idx(q)])
        \/ (q.is_store_array[LSQ_head_idx(q)] /\ LSQ_can_execute_store(q, in))
\* variant: the issue does not look at the ready bit
LSQ_execute_valid_unready(q, in) ==
    /\ q.allocated_array[LSQ_head_idx(q)]
    /\ ~in.clear
    /\ LSQ_condition_met(q, in)

LSQ_execute_valid(q, in) ==
    /\ q.allocated_array[LSQ_head_idx(q)]
    /\ q.ready_array[LSQ_head_idx(q)]
    /\ ~in.clear
    /\ LSQ_condition_met(q, in)

\* the head step without the wrap at LSQ_SIZE
LSQ_updated_head_ptr_nowrap(q) == q.head + 1
LSQ_updated_head_ptr(q) ==
    IF q.head + 1 = LSQ_SIZE THEN 0 ELSE q.head + 1

\* dcache.build(we = ..., re = ...)
LSQ_dcache_we(q, in) == q.is_store_array[LSQ_head_idx(q)] /\ LSQ_execute_valid(q, in)
LSQ_dcache_re(q, in) == q.is_load_array[LSQ_head_idx(q)] /\ LSQ_execute_valid(q, in)

\* wake-up of the resident entries
LSQ_modify_rs1_recorder(q, in, i) ==
    q.allocated_array[i] /\ q.has_rs1_recorder_array[i]
        /\ (q.rs1_recorder_array[i] = in.lsq_recorder)
LSQ_modify_rs2_recorder(q, in, i) ==
    q.allocated_array[i] /\ q.has_rs2_recorder_array[i]
        /\ (q.rs2_recorder_array[i] = in.lsq_recorder)

\* variant: the ready bit computed without the matches of this tick
LSQ_wake_ready_stale(q, in, i) ==
    ~((q.has_rs1_array[i] /\ q.has_rs1_recorder_array[i])
      \/ (q.has_rs2_array[i] /\ q.has_rs2_recorder_array[i]))

LSQ_wake_ready(q, in, i) ==
    ~((q.has_rs1_array[i] /\ (q.has_rs1_recorder_array[i] /\ ~LSQ_modify_rs1_recorder(q, in, i)))
      \/ (q.has_rs2_array[i] /\ (q.has_rs2_recorder_array[i] /\ ~LSQ_modify_rs2_recorder(q, in, i))))

(* Next value of each register.  Writes are applied in the order of the    *)
(* source (allocation, issue, wake-up, flush); in the LSQ the conditions   *)
(* of two writes to one register exclude each other.                       *)
LSQ_next_head(q, in) ==
    IF in.clear THEN 0
    ELSE IF LSQ_execute_valid(q, in) THEN LSQ_updated_head_ptr(q)
    ELSE q.head

\* the tail register without the flush write of line 208
LSQ_next_tail_noflush(q, in) ==
    IF LSQ_write_valid(q, in) THEN LSQ_updated_tail_ptr(q) ELSE q.tail

LSQ_next_tail(q, in) ==
    IF in.clear THEN 0
    ELSE IF LSQ_write_valid(q, in) THEN LSQ_updated_tail_ptr(q)
    ELSE q.tail

LSQ_next_size(q, in) ==
    IF in.clear THEN 0
    ELSE q.lsq_size + (IF LSQ_write_valid(q, in) THEN 1 ELSE 0)
                    - (IF LSQ_execute_valid(q, in) THEN 1 ELSE 0)

LSQ_next_allocated(q, in) ==
    LET ev == LSQ_execute_valid(q, in)
        wv == LSQ_write_valid(q, in)
    IN [i \in LsqIdx |->
        IF in.clear THEN FALSE
        ELSE IF ev /\ i = LSQ_head_idx(q) THEN FALSE
        ELSE IF wv /\ i = LSQ_tail_idx(q) THEN TRUE
        ELSE q.allocated_array[i]]

LSQ_next_ready(q, in) ==
    LET wv == LSQ_write_valid(q, in)
        mr == LSQ_lsq_modify_recorder(in)
    IN [i \in LsqIdx |->
        IF mr /\ ~(wv /\ q.tail = i) THEN LSQ_wake_ready(q, in, i)
        ELSE IF wv /\ i = LSQ_tail_idx(q) THEN LSQ_alloc_ready(in)
        ELSE q.ready_array[i]]

LSQ_next(q, in) ==
    LET wv    == LSQ_write_valid(q, in)
        mr    == LSQ_lsq_modify_recorder(in)
        ti    == LSQ_tail_idx(q)
        \* a register written by the allocation only
        field(arr, new) == IF wv THEN [arr EXCEPT ![ti] = new] ELSE arr
        m1    == [i \in LsqIdx |-> mr /\ LSQ_modify_rs1_recorder(q, in, i)]
        m2    == [i \in LsqIdx |-> mr /\ LSQ_modify_rs2_recorder(q, in, i)]
    IN
    [ head               |-> LSQ_next_head(q, in),
      tail               |-> LSQ_next_tail(q, in),
      lsq_size           |-> LSQ_next_size(q, in),
      allocated_array    |-> LSQ_next_allocated(q, in),
      rob_index_array    |-> field(q.rob_index_array, in.rob_index),
      is_load_array      |-> field(q.is_load_array, in.is_load),
      is_store_array     |-> field(q.is_store_array, in.is_store),
      has_rs1_array      |-> field(q.has_rs1_array, in.rs1_valid),
      rs1_recorder_array |-> field(q.rs1_recorder_array, in.rs1_recorder),
      has_rs2_array      |-> field(q.has_rs2_array, in.rs2_valid),
      rs2_recorder_array |-> field(q.rs2_recorder_array, in.rs2_recorder),
      rs1_value_array |-> [i \in LsqIdx |->
        IF m1[i] THEN in.lsq_modify_value
        ELSE IF wv /\ i = ti THEN LSQ_rs1_value(in)
        ELSE q.rs1_value_array[i]],
      has_rs1_recorder_array |-> [i \in LsqIdx |->
        IF m1[i] THEN FALSE
        ELSE IF wv /\ i = ti THEN LSQ_rs1_has_recorder(in)
        ELSE q.has_rs1_recorder_array[i]],
      rs2_value_array |-> [i \in LsqIdx |->
        IF m2[i] THEN in.lsq_modify_value
        ELSE IF wv /\ i = ti THEN LSQ_rs2_value(in)
        ELSE q.rs2_value_array[i]],
      has_rs2_recorder_array |-> [i \in LsqIdx |->
        IF m2[i] THEN FALSE
        ELSE IF wv /\ i = ti THEN LSQ_rs2_has_recorder(in)
        ELSE q.has_rs2_recorder_array[i]],
      ready_array        |-> LSQ_next_ready(q, in) ]

(* The wires of the tick: the cache port, the retirement channel and what   *)
(* the tick logs about the head entry.                                     *)
LSQ_wires(q, in) ==
    [ execute_valid |-> LSQ_execute_valid(q, in),
      write_valid   |-> LSQ_write_valid(q, in),
      dcache_we     |-> LSQ_dcache_we(q, in),
      dcache_re     |-> LSQ_dcache_re(q, in),
      head_idx      |-> LSQ_head_idx(q),
      allocated     |-> q.allocated_array[LSQ_head_idx(q)],
      ready         |-> q.ready_array[LSQ_head_idx(q)],
      rob_index_ret |-> q.rob_index_array[LSQ_head_idx(q)] ]

----------------------------------------------------------------------------
(* Port values of the LSQ *)

\* ROB tags (3 bits in the source) the environment uses
RobTags == {2, 3}

LsqNoWrite ==
    [ lsq_write |-> FALSE, rob_index |-> 0,
      is_load |-> FALSE, is_store |-> FALSE, rs1_valid |-> FALSE, rs2_valid |-> FALSE,
      rs1_value |-> 0, rs1_recorder |-> 0, rs1_has_recorder |-> FALSE,
      rs2_value |-> 0, rs2_recorder |-> 0, rs2_has_recorder |-> FALSE ]

\* a load (signals.memory = 01): uses rs1 only; rob tag 3
LsqLoad(h1, t1, h2, t2) ==
    [ lsq_write |-> TRUE, rob_index |-> 3,
      is_load |-> TRUE, is_store |-> FALSE, rs1_valid |-> TRUE, rs2_valid |-> FALSE,
      rs1_value |-> 10, rs1_recorder |-> t1, rs1_has_recorder |-> h1,
      rs2_value |-> 10, rs2_recorder |-> t2, rs2_has_recorder |-> h2 ]

\* a store (signals.memory = 10): uses rs1 and rs2; rob tag 2
LsqStore(h1, t1, h2, t2) ==
    [ lsq_write |-> TRUE, rob_index |-> 2,
      is_load |-> FALSE, is_store |-> TRUE, rs1_valid |-> TRUE, rs2_valid |-> TRUE,
      rs1_value |-> 10, rs1_recorder |-> t1, rs1_has_recorder |-> h1,
      rs2_value |-> 10, rs2_recorder |-> t2, rs2_has_recorder |-> h2 ]

L_ready  == LsqLoad(FALSE, 2, FALSE, 0)   \* operand present, stale recorder 2
L_wait2  == LsqLoad(TRUE, 2, FALSE, 0)
L_flag2  == LsqLoad(FALSE, 0, TRUE, 2)    \* the unused rs2 is flagged as waiting
S_ready  == LsqStore(FALSE, 3, FALSE, 2)
S_wait22 == LsqStore(TRUE, 2, TRUE, 2)    \* both operands wait on tag 2
S_wait23 == LsqStore(TRUE, 2, TRUE, 3)

LsqWrites == {L_ready, L_wait2, L_flag2, S_ready, S_wait22, S_wait23}

LsqNoBroadcast ==
    [ lsq_modify_recorder |-> FALSE, lsq_recorder |-> 0, lsq_modify_value |-> 0 ]

LsqBroadcast(t) ==
    [ lsq_modify_recorder |-> TRUE, lsq_recorder |-> t, lsq_modify_value |-> 11 ]

LsqBroadcasts == { LsqBroadcast(t) : t \in RobTags }

LsqIn(w, b, h, c) == Merge(Merge(w, b), [rob_head_index |-> h, clear |-> c])

LsqInputs ==
    { LsqIn(w, b, h, c) :
      w \in LsqWrites \cup {LsqNoWrite},
      b \in LsqBroadcasts \cup {LsqNoBroadcast},
      h \in RobTags, c \in BOOLEAN }

LsqIdleIn == LsqIn(LsqNoWrite, LsqNoBroadcast, 0, FALSE)

Rep(n, x) == [i \in 1 .. n |-> x]

(* Scripts that bring the queue from reset to its deeper states: a stream  *)
(* of loads that issue one tick after their allocation moves head and      *)
(* tail around the ring, stores behind a ROB head that is not theirs pile  *)
(* up to the full queue.                                                   *)
LsqScripts ==
    { << >>,
      Rep(7, LsqIn(S_ready, LsqNoBroadcast, 3, FALSE)),
      Rep(6, LsqIn(L_ready, LsqNoBroadcast, 3, FALSE))
          \o Rep(3, LsqIn(S_wait22, LsqNoBroadcast, 3, FALSE)),
      Rep(7, LsqIn(L_ready, LsqNoBroadcast, 3, FALSE))
          \o Rep(6, LsqIn(S_ready, LsqNoBroadcast, 3, FALSE)),
      << LsqIn(S_wait23, LsqNoBroadcast, 3, FALSE),
         LsqIn(L_ready, LsqNoBroadcast, 3, FALSE),
         LsqIn(L_wait2, LsqNoBroadcast, 3, FALSE) >>,
      << LsqIn(S_ready, LsqNoBroadcast, 3, FALSE),
         LsqIn(L_ready, LsqNoBroadcast, 3, FALSE) >> }

----------------------------------------------------------------------------
(* src/src/RS.py *)

RS_SIZE == 8

RsIdx == 0 .. (RS_SIZE - 1)

(* alu_type is a one-hot vector whose positions are defined outside these  *)
(* sources; the model names the positions it needs.  "0" is the reset      *)
(* value of the register (no bit set).                                     *)
ALU_MUL == "ALU_MUL"
ALU_NONE == "ALU_NONE"
ALU_ADD == "ALU_ADD"

RS_Init ==
    [ allocated_array        |-> [i \in RsIdx |-> FALSE],
      rob_index_array        |-> [i \in RsIdx |-> 0],
      rs1_value_array        |-> [i \in RsIdx |-> 0],
      has_rs1_array          |-> [i \in RsIdx |-> FALSE],
      rs2_value_array        |-> [i \in RsIdx |-> 0],
      has_rs2_array          |-> [i \in RsIdx |-> FALSE],
      rs1_recorder_array     |-> [i \in RsIdx |-> 0],
      has_rs1_recorder_array |-> [i \in RsIdx |-> FALSE],
      rs2_recorder_array     |-> [i \in RsIdx |-> 0],
      has_rs2_recorder_array |-> [i \in RsIdx |-> FALSE],
      alu_type_array         |-> [i \in RsIdx |-> "0"] ]

\* is the slot named by the incoming rob_index occupied
RS_allocated(r, in) == r.allocated_array[in.rob_index]

\* same-tick wake-up of the incoming operands
RS_rs1_coincidence(in) ==
    in.rs1_has_recorder /\ (in.rs1_recorder = in.rs_recorder) /\ in.rs_modify_recorder
RS_rs1_has_recorder(in) ==
    IF RS_rs1_coincidence(in) THEN FALSE ELSE in.rs1_has_recorder
RS_rs1_value(in) ==
    IF RS_rs1_coincidence(in) THEN in.rs_modify_value ELSE in.rs1_value

RS_rs2_coincidence(in) ==
    in.rs2_has_recorder /\ (in.rs2_recorder = in.rs_recorder) /\ in.rs_modify_recorder
RS_rs2_has_recorder(in) ==
    IF RS_rs2_coincidence(in) THEN FALSE ELSE in.rs2_has_recorder
RS_rs2_value(in) ==
    IF RS_rs2_coincidence(in) THEN in.rs_modify_value ELSE in.rs2_value

\* variant: the allocation not gated by the allocated bit of the slot
RS_alloc_ungated(r, in) == in.rs_write

\* the allocation condition; the flush line is not part of it
RS_alloc(r, in) == in.rs_write /\ ~RS_allocated(r, in)

\* selection: operands-ready entries, split by functional unit
RS_rs1_valid(r, i) ==
    (~r.has_rs1_array[i]) \/ (r.has_rs1_array[i] /\ ~r.has_rs1_recorder_array[i])
RS_rs2_valid(r, i) ==
    (~r.has_rs2_array[i]) \/ (r.has_rs2_array[i] /\ ~r.has_rs2_recorder_array[i])
RS_valid(r, i) ==
    r.allocated_array[i] /\ RS_rs1_valid(r, i) /\ RS_rs2_valid(r, i)
        /\ ~(r.alu_type_array[i] = ALU_MUL)
RS_valid_to_mul(r, i) ==
    r.allocated_array[i] /\ RS_rs1_valid(r, i) /\ RS_rs2_valid(r, i)
        /\ (r.alu_type_array[i] = ALU_MUL)

\* the value a chain of selects over i = 0 .. 7 ends with: the last i that
\* took the select, 0 when none did
\* variant: the first i that took the select
FirstOf(S) == IF S = {} THEN 0 ELSE CHOOSE i \in S : \A j \in S : i <= j

LastOf(S) == IF S = {} THEN 0 ELSE CHOOSE i \in S : \A j \in S : j <= i

RS_send_index(r) == LastOf({i \in RsIdx : RS_valid(r, i)})
RS_send_index_to_mul(r) == LastOf({i \in RsIdx : RS_valid_to_mul(r, i)})

\* variant: the ALU valid not masked by the flush line
RS_send_unmasked(r, in) == \E i \in RsIdx : RS_valid(r, i)

RS_send(r, in) == (\E i \in RsIdx : RS_valid(r, i)) /\ ~in.clear
RS_send_to_mul(r, in) == (\E i \in RsIdx : RS_valid_to_mul(r, i)) /\ ~in.clear

\* calc_type handed to the ALU and to the multiplier
RS_calc_type(r, in) ==
    IF RS_send(r, in) THEN r.alu_type_array[RS_send_index(r)] ELSE ALU_NONE
RS_calc_type_to_mul(r, in) ==
    IF RS_send_to_mul(r, in) THEN r.alu_type_array[RS_send_index_to_mul(r)] ELSE ALU_NONE

\* variant: the rs1 match does not look at has_rs1_recorder
RS_modify_rs1_recorder_stale(r, in, i) ==
    in.rs_modify_recorder /\ r.allocated_array[i] /\ (r.rs1_recorder_array[i] = in.rs_recorder)

\* wake-up of the resident entries; the flush line is not part of it
RS_modify_rs1_recorder(r, in, i) ==
    in.rs_modify_recorder /\ r.allocated_array[i] /\ r.has_rs1_recorder_array[i]
        /\ (r.rs1_recorder_array[i] = in.rs_recorder)
\* the rs2 match taken against the rs1 tag
RS_modify_rs2_recorder_tag1(r, in, i) ==
    in.rs_modify_recorder /\ r.allocated_array[i] /\ r.has_rs2_recorder_array[i]
        /\ (r.rs1_recorder_array[i] = in.rs_recorder)
RS_modify_rs2_recorder(r, in, i) ==
    in.rs_modify_recorder /\ r.allocated_array[i] /\ r.has_rs2_recorder_array[i]
        /\ (r.rs2_recorder_array[i] = in.rs_recorder)

(* allocated_array[k] receives two writes in one tick when an allocation   *)
(* into the free slot k meets the flush line: 1 from the allocation        *)
(* (line 123) and 0 from the flush (line 203).  Nothing in the source      *)
(* orders them.                                                            *)
RS_write_conflict(r, in) == RS_alloc(r, in) /\ in.clear

\* the outcomes of the tick's write arbitration: which write is committed
RS_Winners(r, in) ==
    IF RS_write_conflict(r, in) THEN {"flush", "allocation"} ELSE {"flush"}

\* variant: an rs_write sets the bit of its slot whatever the slot holds
RS_next_allocated_ungated(r, in, win) ==
    [i \in RsIdx |->
        IF in.clear /\ ~(in.rs_write /\ i = in.rob_index /\ win = "allocation")
        THEN FALSE
        ELSE IF in.rs_write /\ i = in.rob_index THEN TRUE
        ELSE IF RS_send_to_mul(r, in) /\ i = RS_send_index_to_mul(r) THEN FALSE
        ELSE IF RS_send(r, in) /\ i = RS_send_index(r) THEN FALSE
        ELSE r.allocated_array[i]]

\* variant: the issue on the ALU port leaves the allocated bit alone
RS_next_allocated_alu_stays(r, in, win) ==
    [i \in RsIdx |->
        IF in.clear /\ ~(RS_alloc(r, in) /\ i = in.rob_index /\ win = "allocation")
        THEN FALSE
        ELSE IF RS_send_to_mul(r, in) /\ i = RS_send_index_to_mul(r) THEN FALSE
        ELSE IF RS_alloc(r, in) /\ i = in.rob_index THEN TRUE
        ELSE r.allocated_array[i]]

RS_next_allocated(r, in, win) ==
    [i \in RsIdx |->
        IF in.clear /\ ~(RS_alloc(r, in) /\ i = in.rob_index /\ win = "allocation")
        THEN FALSE
        ELSE IF RS_send_to_mul(r, in) /\ i = RS_send_index_to_mul(r) THEN FALSE
        ELSE IF RS_send(r, in) /\ i = RS_send_index(r) THEN FALSE
        ELSE IF RS_alloc(r, in) /\ i = in.rob_index THEN TRUE
        ELSE r.allocated_array[i]]

\* variant: the tag of the slot above
RS_rob_index_entry_above(in) == (in.rob_index + 1) % RS_SIZE

\* the tag an allocation stores in its slot
RS_rob_index_entry(in) == in.rob_index

RS_next(r, in, win) ==
    LET al == RS_alloc(r, in)
        k  == in.rob_index
        field(arr, new) == IF al THEN [arr EXCEPT ![k] = new] ELSE arr
        m1 == [i \in RsIdx |-> RS_modify_rs1_recorder(r, in, i)]
        m2 == [i \in RsIdx |-> RS_modify_rs2_recorder(r, in, i)]
    IN
    [ allocated_array    |-> RS_next_allocated(r, in, win),
      rob_index_array    |-> field(r.rob_index_array, RS_rob_index_entry(in)),
      has_rs1_array      |-> field(r.has_rs1_array, in.rs1_valid),
      has_rs2_array      |-> field(r.has_rs2_array, in.rs2_valid),
      rs1_recorder_array |-> field(r.rs1_recorder_array, in.rs1_recorder),
      rs2_recorder_array |-> field(r.rs2_recorder_array, in.rs2_recorder),
      alu_type_array     |-> field(r.alu_type_array, in.alu),
      rs1_value_array |-> [i \in RsIdx |->
        IF m1[i] THEN in.rs_modify_value
        ELSE IF al /\ i = k THEN RS_rs1_value(in)
        ELSE r.rs1_value_array[i]],
      has_rs1_recorder_array |-> [i \in RsIdx |->
        IF m1[i] THEN FALSE
        ELSE IF al /\ i = k THEN RS_rs1_has_recorder(in)
        ELSE r.has_rs1_recorder_array[i]],
      rs2_value_array |-> [i \in RsIdx |->
        IF m2[i] THEN in.rs_modify_value
        ELSE IF al /\ i = k THEN RS_rs2_value(in)
        ELSE r.rs2_value_array[i]],
      has_rs2_recorder_array |-> [i \in RsIdx |->
        IF m2[i] THEN FALSE
        ELSE IF al /\ i = k THEN RS_rs2_has_recorder(in)
        ELSE r.has_rs2_recorder_array[i]] ]

\* the calls of the tick: alu.async_called and mul_alu.async_called
RS_wires(r, in) ==
    [ send              |-> RS_send(r, in),
      send_index        |-> RS_send_index(r),
      rob_index         |-> r.rob_index_array[RS_send_index(r)],
      calc_type         |-> RS_calc_type(r, in),
      send_to_mul       |-> RS_send_to_mul(r, in),
      send_index_to_mul |-> RS_send_index_to_mul(r),
      rob_index_to_mul  |-> r.rob_index_array[RS_send_index_to_mul(r)],
      calc_type_to_mul  |-> RS_calc_type_to_mul(r, in),
      alloc             |-> RS_alloc(r, in) ]

----------------------------------------------------------------------------
(* Port values of the RS *)

RsNoWrite ==
    [ rs_write |-> FALSE, rob_index |-> 0, alu |-> "0",
      rs1_valid |-> FALSE, rs2_valid |-> FALSE,
      rs1_value |-> 0, rs1_recorder |-> 0, rs1_has_recorder |-> FALSE,
      rs2_value |-> 0, rs2_recorder |-> 0, rs2_has_recorder |-> FALSE ]

\* operand patterns of an incoming instruction
\* both operands present, stale recorders
RsReady ==
    [ rs1_valid |-> TRUE, rs2_valid |-> TRUE,
      rs1_value |-> 10, rs1_recorder |-> 2, rs1_has_recorder |-> FALSE,
      rs2_value |-> 10, rs2_recorder |-> 3, rs2_has_recorder |-> FALSE ]
\* both operands wait on tag 2
RsWait22 ==
    [ rs1_valid |-> TRUE, rs2_valid |-> TRUE,
      rs1_value |-> 10, rs1_recorder |-> 2, rs1_has_recorder |-> TRUE,
      rs2_value |-> 10, rs2_recorder |-> 2, rs2_has_recorder |-> TRUE ]
\* rs1 waits on tag 2, rs2 on tag 3
RsWait23 ==
    [ rs1_valid |-> TRUE, rs2_valid |-> TRUE,
      rs1_value |-> 10, rs1_recorder |-> 2, rs1_has_recorder |-> TRUE,
      rs2_value |-> 10, rs2_recorder |-> 3, rs2_has_recorder |-> TRUE ]
\* rs1 present, the unused rs2 is flagged as waiting on tag 2
RsFlag2 ==
    [ rs1_valid |-> TRUE, rs2_valid |-> FALSE,
      rs1_value |-> 10, rs1_recorder |-> 0, rs1_has_recorder |-> FALSE,
      rs2_value |-> 10, rs2_recorder |-> 2, rs2_has_recorder |-> TRUE ]

RsOperands == {RsReady, RsWait22, RsWait23, RsFlag2}

RsOp(k, alu, o) == Merge([rs_write |-> TRUE, rob_index |-> k, alu |-> alu], o)

\* what the free environment allocates: a multiplication into slot 2, an
\* addition into slot 5
RsWrites ==
    { RsOp(2, ALU_MUL, o) : o \in RsOperands } \cup { RsOp(5, ALU_ADD, o) : o \in RsOperands }

RsNoBroadcast ==
    [ rs_modify_recorder |-> FALSE, rs_recorder |-> 0, rs_modify_value |-> 0 ]

RsBroadcast(t) ==
    [ rs_modify_recorder |-> TRUE, rs_recorder |-> t, rs_modify_value |-> 11 ]

RsBroadcasts == { RsBroadcast(t) : t \in RobTags }

RsIn(w, b, c) == Merge(Merge(w, b), [clear |-> c])

RsInputs ==
    { RsIn(w, b, c) :
      w \in RsWrites \cup {RsNoWrite},
      b \in RsBroadcasts \cup {RsNoBroadcast},
      c \in BOOLEAN }

RsIdleIn == RsIn(RsNoWrite, RsNoBroadcast, FALSE)

\* what an environment that never flushes presents, tick after tick without
\* end: ready additions for slots 5 and 7, broadcasts of tag 2
RsLiveWrites == { RsOp(5, ALU_ADD, RsReady), RsOp(7, ALU_ADD, RsReady) }

RsLiveInputs ==
    { RsIn(w, b, FALSE) :
      w \in RsLiveWrites \cup {RsNoWrite},
      b \in {RsBroadcast(2), RsNoBroadcast} }

\* Scripts that fill the station with entries waiting for a broadcast.
RsScripts ==
    { << >>,
      << RsIn(RsOp(2, ALU_MUL, RsWait22), RsNoBroadcast, FALSE),
         RsIn(RsOp(5, ALU_ADD, RsWait22), RsNoBroadcast, FALSE) >>,
      << RsIn(RsOp(1, ALU_ADD, RsWait22), RsNoBroadcast, FALSE),
         RsIn(RsOp(3, ALU_MUL, RsWait23), RsNoBroadcast, FALSE),
         RsIn(RsOp(6, ALU_MUL, RsWait22), RsNoBroadcast, FALSE),
         RsIn(RsOp(7, ALU_ADD, RsWait22), RsNoBroadcast, FALSE) >>,
      << RsIn(RsOp(5, ALU_ADD, RsWait23), RsNoBroadcast, FALSE),
         RsIn(RsOp(7, ALU_ADD, RsReady), RsNoBroadcast, FALSE) >> }

----------------------------------------------------------------------------
(* src/src/div_alu.py *)

(* A Bits(32) value is a pair of 16-bit halves, [hi, lo], standing for     *)
(* hi * 2^16 + lo: the model checker's integers end below 2^32.  A         *)
(* Bits(1) value of the data path is 0 or 1.                               *)
Wd(h, l) == [hi |-> h, lo |-> l]

Bit31(x) == x.hi \div 32768

\* ~x
Not32(x) == Wd(65535 - x.hi, 65535 - x.lo)

\* (x + y) in Int(32): the sum modulo 2^32
Add32(x, y) ==
    LET l == x.lo + y.lo
        h == x.hi + y.hi + (l \div 65536)
    IN Wd(h % 65536, l % 65536)

\* x << 1 in Bits(32): the bit shifted out of position 31 is lost
Shl1(x) == Wd((x.hi * 2 + (x.lo \div 32768)) % 65536, (x.lo * 2) % 65536)

\* (x >> 31) & 1
Shr31And1(x) == Wd(0, Bit31(x))

\* x | y where y is 0 or 1 and bit 0 of x is 0
Or1(x, y) == Wd(x.hi, x.lo + y.lo - ((x.lo % 2) * y.lo))

\* ((~x).bitcast(Int(32)) + 1).bitcast(Bits(32)): two's-complement negation
Neg32(x) == Add32(Not32(x), Wd(0, 1))

(* concat(Bits(1)(0), r) - concat(Bits(1)(0), d) in Int(33), as the triple *)
(* of bit 32 and the two halves of the low 32 bits.                        *)
Sub33(r, d) ==
    LET l  == r.lo - d.lo
        bl == IF l < 0 THEN 1 ELSE 0
        h  == r.hi - d.hi - bl
        bh == IF h < 0 THEN 1 ELSE 0
    IN [ top  |-> bh,          \* (0 - 0 - borrow) modulo 2
         diff |-> Wd(h + bh * 65536, l + bl * 65536) ]

\* stage 1: sign handling of the incoming operands
DIV_dividend_neg(in) == in.rs1_sign * Bit31(in.alu_a)
DIV_divisor_neg(in) == in.rs2_sign * Bit31(in.alu_b)
DIV_dividend_abs(in) == IF DIV_dividend_neg(in) = 1 THEN Neg32(in.alu_a) ELSE in.alu_a
DIV_divisor_abs(in) == IF DIV_divisor_neg(in) = 1 THEN Neg32(in.alu_b) ELSE in.alu_b
DIV_div_by_zero(in) == IF in.alu_b = Wd(0, 0) THEN 1 ELSE 0

\* one iteration of the restoring division on s = [r, q, d]
\* variant: the borrow read from bit 31 of the 32-bit difference
DIV_iteration_cmp32(s) ==
    LET r_shifted == Shl1(s.r)
        q_msb     == Shr31And1(s.q)
        r_new     == Or1(r_shifted, q_msb)
        q_new     == Shl1(s.q)
        diff_ext  == Sub33(r_new, s.d)
        no_borrow == 1 - Bit31(diff_ext.diff)
    IN [ r |-> IF no_borrow = 1 THEN diff_ext.diff ELSE r_new,
         q |-> IF no_borrow = 1 THEN Or1(q_new, Wd(0, 1)) ELSE q_new,
         d |-> s.d ]

DIV_iteration(s) ==
    LET r_shifted == Shl1(s.r)
        q_msb     == Shr31And1(s.q)
        r_new     == Or1(r_shifted, q_msb)
        q_new     == Shl1(s.q)
        diff_ext  == Sub33(r_new, s.d)
        no_borrow == 1 - diff_ext.top
    IN [ r |-> IF no_borrow = 1 THEN diff_ext.diff ELSE r_new,
         q |-> IF no_borrow = 1 THEN Or1(q_new, Wd(0, 1)) ELSE q_new,
         d |-> s.d ]

RECURSIVE DIV_iterations(_, _)
DIV_iterations(n, s) ==
    IF n = 0 THEN s
    ELSE LET t == DIV_iteration(s)
         IN  \* the divisor is loop-invariant (line 157 reads it, nothing writes it)
             IF t.d = s.d THEN DIV_iterations(n - 1, t) ELSE s

\* for i in range(16), in stage 2 and in stage 3
DIV_ITERS == 16

\* stage 4: sign correction and the divide-by-zero results
DIV_quotient_neg(st) == (st.dividend_neg + st.divisor_neg) % 2
\* the remainder given the sign rule of the quotient
DIV_remainder_neg_xor(st) == (st.dividend_neg + st.divisor_neg) % 2
DIV_remainder_neg(st) == st.dividend_neg
DIV_final_quotient(st) ==
    IF DIV_quotient_neg(st) = 1 THEN Neg32(st.quotient) ELSE st.quotient
DIV_final_remainder(st) ==
    IF DIV_remainder_neg(st) = 1 THEN Neg32(st.remainder) ELSE st.remainder
\* variant: no select on div_by_zero
DIV_stage4_quotient_noselect(st) == DIV_final_quotient(st)

DIV_stage4_quotient(st) ==
    IF st.div_by_zero = 1 THEN Wd(65535, 65535) ELSE DIV_final_quotient(st)
DIV_stage4_remainder(st) ==
    IF st.div_by_zero = 1 THEN st.remainder ELSE DIV_final_remainder(st)

\* the result the output stage selects
DIV_result(st) == IF st.get_remainder = 1 THEN st.remainder ELSE st.quotient

(* The registers of one stage.  `src` is a history field: the operand      *)
(* bundle the stage's contents come from; it is written together with the  *)
(* stage's rob_index register and nothing reads it.                        *)
DivNoSrc ==
    [ seq |-> 0, alu_a |-> Wd(0, 0), alu_b |-> Wd(0, 0), rs1_sign |-> 0, rs2_sign |-> 0,
      get_remainder |-> 0, rob_index |-> 0, pc_addr |-> Wd(0, 0) ]

DivStageInit ==
    [ valid |-> FALSE, quotient |-> Wd(0, 0), remainder |-> Wd(0, 0), divisor |-> Wd(0, 0),
      addr |-> Wd(0, 0), rob_index |-> 0, get_remainder |-> 0,
      dividend_neg |-> 0, divisor_neg |-> 0, div_by_zero |-> 0, src |-> DivNoSrc ]

DIV_Init ==
    [ stage1 |-> DivStageInit, stage2 |-> DivStageInit,
      stage3 |-> DivStageInit, stage4 |-> DivStageInit,
      \* the arrays the module reports through
      signal |-> FALSE, result |-> Wd(0, 0), rob_index |-> 0, pc_result |-> Wd(0, 0),
      src |-> DivNoSrc ]

DivSrc(in) ==
    [ seq |-> in.seq, alu_a |-> in.alu_a, alu_b |-> in.alu_b,
      rs1_sign |-> in.rs1_sign, rs2_sign |-> in.rs2_sign,
      get_remainder |-> in.get_remainder, rob_index |-> in.rob_index,
      pc_addr |-> in.pc_addr ]

DIV_next_stage1(d, in) ==
    IF in.valid
    THEN [ valid |-> ~in.clear,
           quotient |-> DIV_dividend_abs(in), remainder |-> Wd(0, 0),
           divisor |-> DIV_divisor_abs(in),
           addr |-> in.pc_addr, rob_index |-> in.rob_index,
           get_remainder |-> in.get_remainder,
           dividend_neg |-> DIV_dividend_neg(in), divisor_neg |-> DIV_divisor_neg(in),
           div_by_zero |-> DIV_div_by_zero(in), src |-> DivSrc(in) ]
    ELSE [d.stage1 EXCEPT !.valid = FALSE]

\* stages 2 and 3: 16 iterations on the registers of the stage before
\* variant: the iterations read the divisor the stage itself holds
DIV_next_iter_stage_own_divisor(prev, cur, in) ==
    IF prev.valid
    THEN LET s == DIV_iterations(DIV_ITERS,
                    [r |-> prev.remainder, q |-> prev.quotient, d |-> cur.divisor])
         IN [prev EXCEPT !.valid = ~in.clear, !.quotient = s.q, !.remainder = s.r]
    ELSE [cur EXCEPT !.valid = FALSE]

DIV_next_iter_stage(prev, cur, in) ==
    IF prev.valid
    THEN LET s == DIV_iterations(DIV_ITERS,
                    [r |-> prev.remainder, q |-> prev.quotient, d |-> prev.divisor])
         IN [prev EXCEPT !.valid = ~in.clear, !.quotient = s.q, !.remainder = s.r,
                         !.divisor = s.d]
    ELSE [cur EXCEPT !.valid = FALSE]

\* stage 4 whose valid bit ignores the flush line
DIV_next_stage4_noclear(d, in) ==
    IF d.stage3.valid
    THEN [d.stage3 EXCEPT !.valid = TRUE,
                          !.quotient = DIV_stage4_quotient(d.stage3),
                          !.remainder = DIV_stage4_remainder(d.stage3)]
    ELSE [d.stage4 EXCEPT !.valid = FALSE]

DIV_next_stage4(d, in) ==
    IF d.stage3.valid
    THEN [d.stage3 EXCEPT !.valid = ~in.clear,
                          !.quotient = DIV_stage4_quotient(d.stage3),
                          !.remainder = DIV_stage4_remainder(d.stage3)]
    ELSE [d.stage4 EXCEPT !.valid = FALSE]

\* variant: the output reports on the valid bit of stage 3
DIV_signal_stage3(d, in) == d.stage3.valid /\ ~in.clear

DIV_signal(d, in) == d.stage4.valid /\ ~in.clear

DIV_next(d, in) ==
    [ stage1 |-> DIV_next_stage1(d, in),
      stage2 |-> DIV_next_iter_stage(d.stage1, d.stage2, in),
      stage3 |-> DIV_next_iter_stage(d.stage2, d.stage3, in),
      stage4 |-> DIV_next_stage4(d, in),
      signal |-> DIV_signal(d, in),
      result    |-> IF DIV_signal(d, in) THEN DIV_result(d.stage4) ELSE d.result,
      rob_index |-> IF DIV_signal(d, in) THEN d.stage4.rob_index ELSE d.rob_index,
      pc_result |-> IF DIV_signal(d, in) THEN Add32(d.stage4.addr, Wd(0, 4)) ELSE d.pc_result,
      src       |-> IF DIV_signal(d, in) THEN d.stage4.src ELSE d.src ]

\* history: the operations in the pipeline or on the ports during a tick
DivInFlight(d, in) ==
    { st.src.seq : st \in { x \in {d.stage1, d.stage2, d.stage3, d.stage4} : x.valid } }
        \cup (IF in.valid THEN {in.seq} ELSE {})

(* The result an operation yields when it runs through an otherwise empty  *)
(* pipeline with no flush: five ticks of DIV_next.                         *)
DIV_alone(in, idle) ==
    LET d1 == DIV_next(DIV_Init, in)
        d2 == DIV_next(d1, idle)
        d3 == DIV_next(d2, idle)
        d4 == DIV_next(d3, idle)
        d5 == DIV_next(d4, idle)
    IN d5.result

----------------------------------------------------------------------------
(* Port values of the divider *)

DivIdle ==
    [ valid |-> FALSE, seq |-> 0, alu_a |-> Wd(0, 0), alu_b |-> Wd(0, 0),
      rs1_sign |-> 0, rs2_sign |-> 0, get_remainder |-> 0,
      rob_index |-> 0, pc_addr |-> Wd(0, 0), clear |-> FALSE ]

\* dividends: 0, 7, 0x12345678, 0x7FFFFFFF, 0x80000000, 0xFFFFFFF9, 0xFFFFFFFE, 0xFFFFFFFF
DivA ==
    { Wd(0, 0), Wd(0, 7), Wd(4660, 22136), Wd(32767, 65535), Wd(32768, 0),
      Wd(65535, 65529), Wd(65535, 65534), Wd(65535, 65535) }

\* divisors: 0, 1, 3, 0x00010001, 0x80000000, 0x80000001, 0xFFFFFFFD, 0xFFFFFFFF
DivB ==
    { Wd(0, 0), Wd(0, 1), Wd(0, 3), Wd(1, 1), Wd(32768, 0), Wd(32768, 1),
      Wd(65535, 65533), Wd(65535, 65535) }

\* the first operation of a behaviour: rob tag 2, pc 0x00000100
DivOps ==
    { [ valid |-> TRUE, seq |-> 1, alu_a |-> a, alu_b |-> b, rs1_sign |-> s1, rs2_sign |-> s2,
        get_remainder |-> g, rob_index |-> 2, pc_addr |-> Wd(0, 256), clear |-> FALSE ] :
      a \in DivA, b \in DivB, s1 \in {0, 1}, s2 \in {0, 1}, g \in {0, 1} }

\* the operation the free environment feeds: -7 / 3 signed, rob tag 3, pc 0xFFFFFFFC
DivFollow ==
    [ valid |-> TRUE, seq |-> 2, alu_a |-> Wd(65535, 65529), alu_b |-> Wd(0, 3),
      rs1_sign |-> 1, rs2_sign |-> 1, get_remainder |-> 0,
      rob_index |-> 3, pc_addr |-> Wd(65535, 65532), clear |-> FALSE ]

DivInputs ==
    { [i EXCEPT !.clear = c] : i \in {DivIdle, DivFollow}, c \in BOOLEAN }

\* warm-up: one operation, or a signed division of 0x80000000 with the
\* follow-up operation right behind it
DivScripts ==
    { << op >> : op \in DivOps }
        \cup { << op, DivFollow >> :
                 op \in { o \in DivOps : o.alu_a = Wd(32768, 0) /\ o.rs1_sign = 1 /\ o.rs2_sign = 1 } }

----------------------------------------------------------------------------
(* The state machine *)

Init ==
    /\ unit \in {"LSQ", "RS", "DIV"}
    /\ script \in (CASE unit = "LSQ" -> LsqScripts
                     [] unit = "RS" -> RsScripts
                     [] unit = "DIV" -> DivScripts)
    /\ tick = 0
    /\ lsq = LSQ_Init
    /\ lsq_in = LsqIdleIn
    /\ lsq_out = LSQ_wires(LSQ_Init, LsqIdleIn)
    /\ rs = RS_Init
    /\ rs_in = RsIdleIn
    /\ rs_out = RS_wires(RS_Init, RsIdleIn)
    /\ div = DIV_Init
    /\ div_in = DivIdle
    /\ div_hist = [fed |-> 0, flushed |-> {}, at |-> << >>,
                   ops |-> << >>, outs |-> << >>, now |-> 0]

\* the port values of the next tick
Present(inputs, max) ==
    IF script # << >> THEN {Head(script)}
    ELSE IF tick < max THEN inputs
    ELSE {}

Advance ==
    /\ script' = IF script # << >> THEN Tail(script) ELSE script
    /\ tick' = IF script # << >> THEN tick ELSE tick + 1

\* one tick of LSQ.build
LSQ_Tick ==
    /\ unit = "LSQ"
    /\ \E in \in Present(LsqInputs, MaxTickLSQ) :
         /\ lsq' = LSQ_next(lsq, in)
         /\ lsq_in' = in
         /\ lsq_out' = LSQ_wires(lsq, in)
    /\ Advance
    /\ UNCHANGED <<unit, rs, rs_in, rs_out, div, div_in, div_hist>>

\* one tick of RS.build
RS_Tick ==
    /\ unit = "RS"
    /\ \E in \in Present(RsInputs, MaxTickRS) :
         \E win \in RS_Winners(rs, in) :
            /\ rs' = RS_next(rs, in, win)
            /\ rs_in' = in
            /\ rs_out' = RS_wires(rs, in)
    /\ Advance
    /\ UNCHANGED <<unit, lsq, lsq_in, lsq_out, div, div_in, div_hist>>

\* one tick of RS.build in a run that never ends and never flushes
RS_LiveTick ==
    /\ unit = "RS"
    /\ \E in \in (IF script # << >> THEN {Head(script)} ELSE RsLiveInputs) :
         \E win \in RS_Winners(rs, in) :
            /\ rs' = RS_next(rs, in, win)
            /\ rs_in' = in
            /\ rs_out' = RS_wires(rs, in)
    /\ script' = IF script # << >> THEN Tail(script) ELSE script
    /\ UNCHANGED <<unit, tick, lsq, lsq_in, lsq_out, div, div_in, div_hist>>

\* one tick of DIV_ALU.build
DIV_Tick ==
    /\ unit = "DIV"
    /\ \E p \in Present(DivInputs, MaxTickDIV) :
         \* the history numbers the operations in the order they are fed
         \E in \in {[p EXCEPT !.seq = IF p.valid THEN div_hist.fed + 1 ELSE 0]} :
         /\ div' = DIV_next(div, in)
         /\ div_in' = in
         /\ div_hist' = [ fed |-> IF in.valid THEN div_hist.fed + 1 ELSE div_hist.fed,
                          flushed |-> IF in.clear
                                      THEN div_hist.flushed \cup DivInFlight(div, in)
                                      ELSE div_hist.flushed,
                          at |-> IF in.valid THEN Append(div_hist.at, div_hist.now)
                                 ELSE div_hist.at,
                          ops |-> IF in.valid THEN Append(div_hist.ops, DivSrc(in))
                                  ELSE div_hist.ops,
                          outs |-> IF DIV_signal(div, in)
                                   THEN Append(div_hist.outs,
                                               [ seq |-> div'.src.seq, tick |-> div_hist.now,
                                                 result |-> div'.result,
                                                 rob_index |-> div'.rob_index,
                                                 pc_result |-> div'.pc_result ])
                                   ELSE div_hist.outs,
                          now |-> div_hist.now + 1 ]
    /\ Advance
    /\ UNCHANGED <<unit, lsq, lsq_in, lsq_out, rs, rs_in, rs_out>>

Next == LSQ_Tick \/ RS_Tick \/ DIV_Tick

Spec == Init /\ [][Next]_vars

\* the behaviours of one module
InitLSQ == Init /\ unit = "LSQ"
InitRS == Init /\ unit = "RS"
InitDIV == Init /\ unit = "DIV"

SpecLSQ == InitLSQ /\ [][LSQ_Tick]_vars
SpecRS == InitRS /\ [][RS_Tick]_vars
SpecDIV == InitDIV /\ [][DIV_Tick]_vars

\* the behaviours of the two queues that listen to the broadcast
InitQueues == Init /\ unit \in {"LSQ", "RS"}
NextQueues == LSQ_Tick \/ RS_Tick
SpecQueues == InitQueues /\ [][NextQueues]_vars

\* the RS under a clock that never stops: every tick happens
SpecRSLive == InitRS /\ [][RS_LiveTick]_vars /\ WF_vars(RS_LiveTick)

\* the behaviours of the three modules, the divider warmed up with two
\* operations back to back
InitUnits == Init /\ (unit = "DIV" => Len(script) = 2)
SpecUnits == InitUnits /\ [][Next]_vars

----------------------------------------------------------------------------
(* Properties of the LSQ *)

LsqAllocated == {i \in LsqIdx : lsq.allocated_array[i]}

\* C1: in every reachable LSQ state head and tail are in 0..7, size is the
\* number of allocated entries, the allocated entries are exactly head,
\* head+1, ..., head+size-1 modulo 8, and tail = (head+size) mod 8.
C1_RingInvariant ==
    /\ lsq.head \in 0 .. 7
    /\ lsq.tail \in 0 .. 7
    /\ lsq.lsq_size = Cardinality(LsqAllocated)
    /\ LsqAllocated = { (lsq.head + k) % 8 : k \in 0 .. (lsq.lsq_size - 1) }
    /\ lsq.tail = (lsq.head + lsq.lsq_size) % 8

\* a wrapped queue (tail below head) whose latest tick both issued the head
\* and allocated at the tail
C1_Witness ==
    /\ unit = "LSQ" /\ tick >= 1
    /\ lsq.tail < lsq.head /\ lsq.lsq_size >= 2
    /\ lsq_out.execute_valid /\ lsq_out.write_valid

\* C2: on every tick, a store issues (cache we = 1, head dequeued) only when
\* rob_index[head] = rob_head_index; a store at the head whose rob_index
\* differs from rob_head_index is neither written to the cache nor dequeued.
C2_StoreGate ==
    [][ LET h      == LSQ_head_idx(lsq)
            at_rob == lsq.rob_index_array[h] = lsq_in'.rob_head_index
            store  == lsq.allocated_array[h] /\ lsq.is_store_array[h]
        IN /\ lsq_out'.dcache_we => at_rob
           /\ (store /\ lsq_out'.execute_valid) => at_rob
           /\ (store /\ ~lsq_in'.clear /\ lsq'.head # lsq.head) => at_rob
           /\ (store /\ ~at_rob) =>
                 /\ ~lsq_out'.dcache_we /\ ~lsq_out'.execute_valid
                 /\ ~lsq_in'.clear => (lsq'.allocated_array[h] /\ lsq'.head = lsq.head)
      ]_vars

\* the latest tick wrote a store to the cache, and its tag was the ROB head
C2_Witness ==
    /\ unit = "LSQ" /\ tick >= 1
    /\ lsq_out.dcache_we /\ lsq_out.allocated /\ lsq_out.ready
    /\ lsq_out.rob_index_ret = lsq_in.rob_head_index

\* C3: the LSQ issues only its head entry.  On a tick without flush an entry
\* leaves only from index head and only by the issue, head then steps by one
\* modulo 8, and new entries enter only at tail, so entries leave in the
\* order of their allocation; while a store blocked by the store gate is at
\* the head no entry leaves and the cache is not accessed.
C3_HeadOnly ==
    [][ LET h       == LSQ_head_idx(lsq)
            blocked == /\ lsq.allocated_array[h] /\ lsq.is_store_array[h]
                       /\ lsq.rob_index_array[h] # lsq_in'.rob_head_index
        IN ~lsq_in'.clear =>
           /\ \A i \in LsqIdx :
                (lsq.allocated_array[i] /\ ~lsq'.allocated_array[i])
                    => (i = h /\ lsq_out'.execute_valid)
           /\ lsq_out'.execute_valid =>
                 /\ lsq.allocated_array[h] /\ lsq.ready_array[h]
                 /\ ~lsq'.allocated_array[h]
                 /\ lsq'.head = (lsq.head + 1) % 8
           /\ ~lsq_out'.execute_valid => lsq'.head = lsq.head
           /\ (lsq_out'.dcache_we \/ lsq_out'.dcache_re) => lsq_out'.execute_valid
           /\ \A i \in LsqIdx :
                (~lsq.allocated_array[i] /\ lsq'.allocated_array[i])
                    => (i = LSQ_tail_idx(lsq) /\ lsq'.tail = (lsq.tail + 1) % 8)
           /\ blocked =>
                 /\ \A i \in LsqIdx : lsq.allocated_array[i] => lsq'.allocated_array[i]
                 /\ ~lsq_out'.dcache_re /\ ~lsq_out'.dcache_we
      ]_vars

\* a ready store at the head is held by the store gate, a ready load sits
\* right behind it, and the latest tick (no write, no broadcast) issued nothing
C3_Witness ==
    LET h == LSQ_head_idx(lsq)
        n == (h + 1) % 8
    IN /\ unit = "LSQ" /\ tick >= 1
       /\ ~lsq_in.clear /\ ~lsq_in.lsq_write /\ ~lsq_in.lsq_modify_recorder
       /\ lsq.allocated_array[h] /\ lsq.is_store_array[h] /\ lsq.ready_array[h]
       /\ lsq.rob_index_array[h] # lsq_in.rob_head_index
       /\ lsq.allocated_array[n] /\ lsq.is_load_array[n] /\ lsq.ready_array[n]
       /\ ~lsq_out.execute_valid /\ ~lsq_out.dcache_re

\* C6: after any tick with clear = 1 the LSQ has head = 0, tail = 0, size = 0
\* and all 8 allocated bits 0, whatever the other inputs of that tick and
\* whatever the queue held.
C6_LsqFlush ==
    lsq_in.clear =>
        /\ lsq.head = 0 /\ lsq.tail = 0 /\ lsq.lsq_size = 0
        /\ \A i \in LsqIdx : ~lsq.allocated_array[i]

\* the flush met a write and a broadcast, and a ready entry at a head other
\* than 0
C6_Witness ==
    /\ unit = "LSQ"
    /\ lsq_in.clear /\ lsq_in.lsq_write /\ lsq_in.lsq_modify_recorder
    /\ lsq_out.head_idx # 0 /\ lsq_out.allocated /\ lsq_out.ready
----------------------------------------------------------------------------
(* Properties of the wake-up and of the flush of the RS *)

\* the wake-up law for the resident entries of the RS, over one tick
RsWakeUpStep ==
    rs_in'.rs_modify_recorder =>
        \A i \in RsIdx :
            /\ (rs.allocated_array[i] /\ rs.has_rs1_recorder_array[i]
                    /\ rs.rs1_recorder_array[i] = rs_in'.rs_recorder)
                => (~rs'.has_rs1_recorder_array[i]
                        /\ rs'.rs1_value_array[i] = rs_in'.rs_modify_value)
            /\ (rs.allocated_array[i] /\ rs.has_rs2_recorder_array[i]
                    /\ rs.rs2_recorder_array[i] = rs_in'.rs_recorder)
                => (~rs'.has_rs2_recorder_array[i]
                        /\ rs'.rs2_value_array[i] = rs_in'.rs_modify_value)

\* the wake-up law for the resident entries of the LSQ, over one tick
LsqWakeUpStep ==
    lsq_in'.lsq_modify_recorder =>
        \A i \in LsqIdx :
            /\ (lsq.allocated_array[i] /\ lsq.has_rs1_recorder_array[i]
                    /\ lsq.rs1_recorder_array[i] = lsq_in'.lsq_recorder)
                => (~lsq'.has_rs1_recorder_array[i]
                        /\ lsq'.rs1_value_array[i] = lsq_in'.lsq_modify_value)
            /\ (lsq.allocated_array[i] /\ lsq.has_rs2_recorder_array[i]
                    /\ lsq.rs2_recorder_array[i] = lsq_in'.lsq_recorder)
                => (~lsq'.has_rs2_recorder_array[i]
                        /\ lsq'.rs2_value_array[i] = lsq_in'.lsq_modify_value)

\* C4: on a tick with a valid broadcast (T, V) every allocated RS entry, and
\* on a tick without flush every allocated LSQ entry, whose operand X has
\* has_rsX_recorder = 1 and rsX_recorder = T has has_rsX_recorder = 0 and
\* rsX_value = V at the next tick; both operands are filled when both wait
\* on T.
C4_WakeUp ==
    [][ RsWakeUpStep /\ (~lsq_in'.clear => LsqWakeUpStep) ]_vars

\* C4 as stated: the law on any tick, the ticks with clear = 1 included
C4_WakeUpAnyTick ==
    [][ RsWakeUpStep /\ LsqWakeUpStep ]_vars

\* the latest tick (no flush, no write) broadcast the tag both operands of a
\* resident store waited on: both hold the broadcast value now
C4_Witness ==
    /\ unit = "LSQ" /\ tick >= 1
    /\ lsq_in.lsq_modify_recorder /\ ~lsq_in.clear /\ ~lsq_in.lsq_write
    /\ \E i \in LsqIdx :
        /\ lsq.allocated_array[i] /\ lsq.is_store_array[i]
        /\ lsq.rs1_recorder_array[i] = lsq_in.lsq_recorder
        /\ lsq.rs2_recorder_array[i] = lsq_in.lsq_recorder
        /\ ~lsq.has_rs1_recorder_array[i] /\ ~lsq.has_rs2_recorder_array[i]
        /\ lsq.rs1_value_array[i] = lsq_in.lsq_modify_value
        /\ lsq.rs2_value_array[i] = lsq_in.lsq_modify_value
        /\ lsq.rs1_value_array[i] # L_ready.rs1_value
        /\ lsq.ready_array[i]

\* C5: an instruction allocated into the RS or the LSQ with
\* rsX_has_recorder = 1 and rsX_recorder = T0 on a tick that broadcasts
\* (T0, V) is stored with has_rsX_recorder = 0 and rsX_value = V at the next
\* tick, and the initial ready bit of the LSQ entry is computed from the
\* woken operand state.
C5_WakeUpOnAllocation ==
    [][ /\ LET k == rs_in'.rob_index
           IN (rs_in'.rs_write /\ ~rs.allocated_array[k] /\ rs_in'.rs_modify_recorder) =>
                /\ (rs_in'.rs1_has_recorder /\ rs_in'.rs1_recorder = rs_in'.rs_recorder)
                    => (~rs'.has_rs1_recorder_array[k]
                            /\ rs'.rs1_value_array[k] = rs_in'.rs_modify_value)
                /\ (rs_in'.rs2_has_recorder /\ rs_in'.rs2_recorder = rs_in'.rs_recorder)
                    => (~rs'.has_rs2_recorder_array[k]
                            /\ rs'.rs2_value_array[k] = rs_in'.rs_modify_value)
        /\ LET t == LSQ_tail_idx(lsq)
           IN (lsq_in'.lsq_write /\ ~lsq_in'.clear /\ lsq.lsq_size + 1 # LSQ_SIZE) =>
                /\ lsq'.allocated_array[t]
                /\ lsq_in'.lsq_modify_recorder =>
                    /\ (lsq_in'.rs1_has_recorder /\ lsq_in'.rs1_recorder = lsq_in'.lsq_recorder)
                        => (~lsq'.has_rs1_recorder_array[t]
                                /\ lsq'.rs1_value_array[t] = lsq_in'.lsq_modify_value)
                    /\ (lsq_in'.rs2_has_recorder /\ lsq_in'.rs2_recorder = lsq_in'.lsq_recorder)
                        => (~lsq'.has_rs2_recorder_array[t]
                                /\ lsq'.rs2_value_array[t] = lsq_in'.lsq_modify_value)
                /\ lsq'.ready_array[t] =
                        ~((lsq_in'.rs1_valid /\ lsq'.has_rs1_recorder_array[t])
                            \/ (lsq_in'.rs2_valid /\ lsq'.has_rs2_recorder_array[t]))
      ]_vars

\* the latest tick allocated an RS slot whose rs1 waited on the tag broadcast
\* in that tick: the slot holds the broadcast value and waits no more
C5_Witness ==
    LET k == rs_in.rob_index
    IN /\ unit = "RS" /\ ~rs_in.clear
       /\ rs_in.rs_write /\ rs_out.alloc /\ rs_in.rs_modify_recorder
       /\ rs_in.rs1_has_recorder /\ rs_in.rs1_recorder = rs_in.rs_recorder
       /\ rs.allocated_array[k]
       /\ ~rs.has_rs1_recorder_array[k]
       /\ rs.rs1_value_array[k] = rs_in.rs_modify_value
       /\ rs.rs1_value_array[k] # rs_in.rs1_value

\* C7 as stated: after any tick with clear = 1 every RS allocated bit is 0,
\* the bit of the slot an rs_write of that tick targets included.
C7_RsFlushPriority ==
    rs_in.clear => \A i \in RsIdx : ~rs.allocated_array[i]

\* what the source does guarantee: after a tick with clear = 1 every RS
\* allocated bit is 0 except, possibly, that of the free slot an rs_write of
\* the same tick targets
C7_RsFlushOthers ==
    rs_in.clear =>
        \A i \in RsIdx : rs.allocated_array[i] => (rs_out.alloc /\ i = rs_in.rob_index)

\* the flush met an allocation into a free slot, and the slot is allocated
\* after the tick
C7_Witness ==
    /\ unit = "RS" /\ rs_in.clear /\ rs_in.rs_write /\ rs_out.alloc
    /\ rs.allocated_array[rs_in.rob_index]
----------------------------------------------------------------------------
(* Properties of the divider *)

DivStages == {div.stage1, div.stage2, div.stage3, div.stage4}

\* C8: after any tick with clear = 1 the valid bits of all four stages are
\* 0, and no output is ever produced for an input that was in flight or
\* presented on that tick.
C8_DivFlush ==
    /\ div_in.clear => ((\A st \in DivStages : ~st.valid) /\ ~div.signal)
    /\ div.signal => (div.src.seq \notin div_hist.flushed)

\* a flush caught the first operation, and the four ticks its result needs
\* have gone by without an output
C8_Witness ==
    /\ unit = "DIV" /\ tick >= 4
    /\ 1 \in div_hist.flushed
    /\ ~div.signal /\ div.src = DivNoSrc

(* Integers of 64 bits for the round trip: a sequence of 8 bytes, least     *)
(* significant first, read as a two's-complement number.                    *)
Bytes4(x) == << x.lo % 256, x.lo \div 256, x.hi % 256, x.hi \div 256 >>

\* the 32-bit word x extended to 64 bits, as a signed or as an unsigned number
Ext8(x, signed) ==
    LET fill == IF signed /\ Bit31(x) = 1 THEN 255 ELSE 0
    IN Bytes4(x) \o << fill, fill, fill, fill >>

\* the carry out of byte k of the column sums c
RECURSIVE Carry8(_, _)
Carry8(c, k) == IF k = 0 THEN 0 ELSE (c[k] + Carry8(c, k - 1)) \div 256

Norm8(c) == [k \in 1 .. 8 |-> (c[k] + Carry8(c, k - 1)) % 256]

\* x + y modulo 2^64
Add8(x, y) == Norm8([k \in 1 .. 8 |-> x[k] + y[k]])

RECURSIVE Dot8(_, _, _, _)
Dot8(x, y, k, i) == IF i = 0 THEN 0 ELSE x[i] * y[k + 1 - i] + Dot8(x, y, k, i - 1)

\* x * y modulo 2^64
Mul8(x, y) == Norm8([k \in 1 .. 8 |-> Dot8(x, y, k, k)])

\* x < y as unsigned 32-bit numbers
LtU(x, y) == (x.hi < y.hi) \/ (x.hi = y.hi /\ x.lo < y.lo)

\* |x| of a 32-bit word read as a signed or as an unsigned number
Mag(x, signed) == IF signed /\ Bit31(x) = 1 THEN Neg32(x) ELSE x

\* the operation at the output, and the two results its operands yield
DivOut == div.src
DivOpOf(src, g) ==
    [ valid |-> TRUE, seq |-> src.seq, alu_a |-> src.alu_a, alu_b |-> src.alu_b,
      rs1_sign |-> src.rs1_sign, rs2_sign |-> src.rs2_sign, get_remainder |-> g,
      rob_index |-> src.rob_index, pc_addr |-> src.pc_addr, clear |-> FALSE ]
DivOutQ ==
    IF DivOut.get_remainder = 0 THEN div.result ELSE DIV_alone(DivOpOf(DivOut, 0), DivIdle)
DivOutR ==
    IF DivOut.get_remainder = 1 THEN div.result ELSE DIV_alone(DivOpOf(DivOut, 1), DivIdle)

\* a = q*b + r over the integers, the words read as signed or as unsigned
RoundTrip(a, b, q, r, signed) ==
    Ext8(a, signed) = Add8(Mul8(Ext8(q, signed), Ext8(b, signed)), Ext8(r, signed))

\* the round trip of the operation at the output
DivRoundTrip ==
    LET a == DivOut.alu_a
        b == DivOut.alu_b
        signed == DivOut.rs1_sign = 1
    IN /\ RoundTrip(a, b, DivOutQ, DivOutR, signed)
       /\ LtU(Mag(DivOutR, signed), Mag(b, signed))
       /\ signed => (DivOutR = Wd(0, 0) \/ Bit31(DivOutR) = Bit31(a))

\* an output for operands b # 0 in signed or in unsigned mode
DivRoundTripCase ==
    /\ div.signal
    /\ DivOut.alu_b # Wd(0, 0)
    /\ DivOut.rs1_sign = DivOut.rs2_sign

\* the signed division that overflows: -2^31 / -1
DivOverflow ==
    /\ DivOut.rs1_sign = 1 /\ DivOut.rs2_sign = 1
    /\ DivOut.alu_a = Wd(32768, 0) /\ DivOut.alu_b = Wd(65535, 65535)

\* C9: for b # 0 and no flush in flight the quotient q and the remainder r
\* of the same operands satisfy a = q*b + r, |r| < |b| and r = 0 or
\* sign(r) = sign(a) in signed mode, a = q*b + r and 0 <= r < b in unsigned
\* mode; the signed division -2^31 / -1 is the exception and yields
\* q = 0x80000000, r = 0.
C9_DivRoundTrip ==
    DivRoundTripCase =>
        IF DivOverflow
        THEN DivOutQ = Wd(32768, 0) /\ DivOutR = Wd(0, 0)
        ELSE DivRoundTrip

\* C9 as stated: the round trip for every a and every b # 0
C9_DivRoundTripAll ==
    DivRoundTripCase => DivRoundTrip

\* the remainder of -2 / 3 in signed mode is at the output: 0xFFFFFFFE
C9_Witness ==
    /\ unit = "DIV" /\ div.signal
    /\ DivOut.alu_a = Wd(65535, 65534) /\ DivOut.alu_b = Wd(0, 3)
    /\ DivOut.rs1_sign = 1 /\ DivOut.rs2_sign = 1 /\ DivOut.get_remainder = 1
    /\ div.result = Wd(65535, 65534)
    /\ DivOutQ = Wd(0, 0)

\* C10 as stated: for every dividend a and every setting of the sign flags
\* an input with b = 0 and get_remainder = 1 produces result = a.
C10_DivByZeroRemainder ==
    (div.signal /\ DivOut.alu_b = Wd(0, 0) /\ DivOut.get_remainder = 1)
        => div.result = DivOut.alu_a

\* the remainder of -7 / 0 in signed mode is at the output, and it is 7
C10_Witness ==
    /\ unit = "DIV" /\ div.signal
    /\ DivOut.alu_a = Wd(65535, 65529) /\ DivOut.alu_b = Wd(0, 0)
    /\ DivOut.rs1_sign = 1 /\ DivOut.get_remainder = 1
    /\ div.result = Wd(0, 7)
----------------------------------------------------------------------------
(* Properties of the divider: division by zero, latency *)

\* the operations whose output is due in the latest tick: fed four ticks
\* before it and caught by no flush
DivDue ==
    { s \in 1 .. div_hist.fed :
        div_hist.at[s] + 4 = div_hist.now - 1 /\ s \notin div_hist.flushed }

\* C11: for every dividend a and every setting of rs1_sign/rs2_sign, an
\* operation with b = 0 and get_remainder = 0 produces result = 0xFFFFFFFF,
\* and its output is valid like that of any other operation: it is at the
\* output, with signal = 1, in the tick it is due.
C11_DivByZeroQuotient ==
    /\ (div.signal /\ DivOut.alu_b = Wd(0, 0) /\ DivOut.get_remainder = 0)
            => div.result = Wd(65535, 65535)
    /\ \A s \in DivDue :
          (div_hist.ops[s].alu_b = Wd(0, 0) /\ div_hist.ops[s].get_remainder = 0)
              => (div.signal /\ DivOut = div_hist.ops[s] /\ div.result = Wd(65535, 65535))

\* the quotient of the signed division 0x80000000 / 0 is at the output
C11_Witness ==
    /\ unit = "DIV" /\ div.signal
    /\ DivOut.alu_a = Wd(32768, 0) /\ DivOut.alu_b = Wd(0, 0)
    /\ DivOut.rs1_sign = 1 /\ DivOut.rs2_sign = 1 /\ DivOut.get_remainder = 0
    /\ div.result = Wd(65535, 65535)
    /\ DivOut.seq \in DivDue

\* C12: a valid input presented on tick t that no flush catches while it is
\* in flight has its output bundle (signal = 1, its rob_index, its pc + 4
\* modulo 2^32, its result) written on tick t + 4, neither earlier nor
\* later, and signal is 1 only after a tick in which such an input is due.
C12_DivLatency ==
    /\ div.signal =>
          /\ DivOut.seq \in DivDue
          /\ DivOut = div_hist.ops[DivOut.seq]
    /\ \A s \in DivDue :
          /\ div.signal
          /\ DivOut = div_hist.ops[s]
          /\ div.rob_index = div_hist.ops[s].rob_index
          /\ div.pc_result = Add32(div_hist.ops[s].pc_addr, Wd(0, 4))
          /\ div.result = DIV_alone(DivOpOf(div_hist.ops[s], div_hist.ops[s].get_remainder),
                                    DivIdle)

\* the follow-up operation (pc 0xFFFFFFFC) is at the output four ticks after
\* it was fed right behind the first one: pc + 4 wrapped to 0
C12_Witness ==
    /\ unit = "DIV" /\ div.signal
    /\ DivOut.seq = 2 /\ div_hist.at[2] = 1 /\ div_hist.now = 6
    /\ div.rob_index = 3 /\ div.pc_result = Wd(0, 0)
    /\ div.result = Wd(65535, 65534)
----------------------------------------------------------------------------
(* Properties of the RS: slot tags, selection *)

RsAllocated == {i \in RsIdx : rs.allocated_array[i]}

\* C13: in every reachable RS state, for every slot i in 0..7,
\* allocated[i] implies rob_index[i] = i.
C13_RsSlotIsTag ==
    \A i \in RsIdx : rs.allocated_array[i] => rs.rob_index_array[i] = i

\* the latest tick allocated slot 5 while another slot stayed allocated
C13_Witness ==
    /\ unit = "RS" /\ tick >= 1
    /\ rs_in.rs_write /\ rs_out.alloc /\ rs_in.rob_index = 5
    /\ rs.allocated_array[5] /\ rs.rob_index_array[5] = 5
    /\ \E i \in RsIdx \ {5} : rs.allocated_array[i] /\ rs.rob_index_array[i] = i

\* the entries of the RS whose operands are ready
RsOperandsReady ==
    { i \in RsIdx :
        /\ rs.allocated_array[i]
        /\ (~rs.has_rs1_array[i] \/ ~rs.has_rs1_recorder_array[i])
        /\ (~rs.has_rs2_array[i] \/ ~rs.has_rs2_recorder_array[i]) }
RsReadyAlu == { i \in RsOperandsReady : rs.alu_type_array[i] # ALU_MUL }
RsReadyMul == { i \in RsOperandsReady : rs.alu_type_array[i] = ALU_MUL }

----------------------------------------------------------------------------
(* Properties of the issue and of the operand flags of both queues *)

\* C15: every entry issued on a tick (an RS entry on the ALU or on the
\* multiplier port, or the head entry of the LSQ) has allocated = 0 at the
\* next tick, even when an allocation targeting the same slot is presented
\* on that tick; the head of the LSQ additionally advances by one modulo 8.
C15_IssueDeallocates ==
    [][ /\ rs_out'.send => ~rs'.allocated_array[rs_out'.send_index]
        /\ rs_out'.send_to_mul => ~rs'.allocated_array[rs_out'.send_index_to_mul]
        /\ lsq_out'.execute_valid =>
              /\ ~lsq'.allocated_array[LSQ_head_idx(lsq)]
              /\ lsq'.head = (lsq.head + 1) % 8
      ]_vars

\* the latest tick issued RS entry 5 on the ALU port while an rs_write
\* targeted slot 5, and slot 5 is free after it
C15_Witness ==
    /\ unit = "RS" /\ tick >= 1
    /\ rs_out.send /\ rs_out.send_index = 5
    /\ rs_in.rs_write /\ rs_in.rob_index = 5 /\ ~rs_out.alloc
    /\ ~rs.allocated_array[5]

\* C16: in every reachable state, for every allocated LSQ entry i,
\* ready[i] = 1 if and only if not ((has_rs1[i] and has_rs1_recorder[i]) or
\* (has_rs2[i] and has_rs2_recorder[i])); right after the allocation, with
\* the same-tick wake-up applied, and after every wake-up tick.
C16_LsqReady ==
    \A i \in LsqIdx :
        lsq.allocated_array[i] =>
            (lsq.ready_array[i] <=>
                ~((lsq.has_rs1_array[i] /\ lsq.has_rs1_recorder_array[i])
                  \/ (lsq.has_rs2_array[i] /\ lsq.has_rs2_recorder_array[i])))

\* the latest tick broadcast a tag: a store that waited on it for rs1 still
\* waits on another tag for rs2 and is not ready, a load that waited on it
\* holds the broadcast value and is ready
C16_Witness ==
    /\ unit = "LSQ" /\ tick >= 1
    /\ lsq_in.lsq_modify_recorder /\ ~lsq_in.clear
    /\ \E i \in LsqIdx :
          /\ lsq.allocated_array[i] /\ lsq.is_store_array[i] /\ ~lsq.ready_array[i]
          /\ lsq.rs1_recorder_array[i] = lsq_in.lsq_recorder
          /\ ~lsq.has_rs1_recorder_array[i] /\ lsq.has_rs2_recorder_array[i]
    /\ \E j \in LsqIdx :
          /\ lsq.allocated_array[j] /\ lsq.is_load_array[j] /\ lsq.ready_array[j]
          /\ lsq.rs1_recorder_array[j] = lsq_in.lsq_recorder
          /\ lsq.rs1_value_array[j] = lsq_in.lsq_modify_value
          /\ lsq.rs1_value_array[j] # L_ready.rs1_value

\* (I3) for one entry of the RS, of the LSQ
RsFlagsUsed(r, i) ==
    /\ r.has_rs1_recorder_array[i] => r.has_rs1_array[i]
    /\ r.has_rs2_recorder_array[i] => r.has_rs2_array[i]
LsqFlagsUsed(q, i) ==
    /\ q.has_rs1_recorder_array[i] => q.has_rs1_array[i]
    /\ q.has_rs2_recorder_array[i] => q.has_rs2_array[i]

\* an allocation input that names a producer only for the operands it uses
InputFlagsUsed(in) ==
    /\ in.rs1_has_recorder => in.rs1_valid
    /\ in.rs2_has_recorder => in.rs2_valid

\* C17 as stated: in every reachable state, for every allocated RS entry and
\* every allocated LSQ entry i and each operand X, has_rsX_recorder[i] = 1
\* implies has_rsX[i] = 1, for every allocation input the queues accept.
C17_OperandFlags ==
    /\ \A i \in RsIdx : rs.allocated_array[i] => RsFlagsUsed(rs, i)
    /\ \A i \in LsqIdx : lsq.allocated_array[i] => LsqFlagsUsed(lsq, i)

\* C17, amended: an entry allocated from an input with
\* rsX_has_recorder => rsX_valid for both operands has
\* has_rsX_recorder => has_rsX from its allocation on, and every tick
\* keeps the implication for the entries that stay; the queues store the
\* two flags of an input unchecked.
C17_OperandFlagsKept ==
    [][ /\ \A i \in RsIdx :
            rs'.allocated_array[i] =>
                IF rs_out'.alloc /\ i = rs_in'.rob_index
                THEN InputFlagsUsed(rs_in') => RsFlagsUsed(rs', i)
                ELSE RsFlagsUsed(rs, i) => RsFlagsUsed(rs', i)
        /\ \A i \in LsqIdx :
            lsq'.allocated_array[i] =>
                IF lsq_out'.write_valid /\ i = LSQ_tail_idx(lsq)
                THEN InputFlagsUsed(lsq_in') => LsqFlagsUsed(lsq', i)
                ELSE LsqFlagsUsed(lsq, i) => LsqFlagsUsed(lsq', i)
      ]_vars

\* the latest tick allocated a load that uses rs1 only and waits on its
\* producer: the entry waits on rs1 and on nothing else
C17_Witness ==
    LET t == (lsq.tail + LSQ_SIZE - 1) % LSQ_SIZE
    IN /\ unit = "LSQ" /\ tick >= 1
       /\ lsq_out.write_valid /\ InputFlagsUsed(lsq_in)
       /\ lsq_in.rs1_has_recorder /\ ~lsq_in.rs2_valid
       /\ lsq.allocated_array[t] /\ lsq.is_load_array[t]
       /\ lsq.has_rs1_array[t] /\ lsq.has_rs1_recorder_array[t]
       /\ ~lsq.has_rs2_array[t] /\ ~lsq.has_rs2_recorder_array[t]
       /\ ~lsq.ready_array[t]
----------------------------------------------------------------------------
(* Properties of the allocation gates and of the issue of loads *)

\* the wake-up of operand rs1 (rs2) of RS entry i in the coming tick
RsWoken1(i) ==
    /\ rs_in'.rs_modify_recorder /\ rs.allocated_array[i]
    /\ rs.has_rs1_recorder_array[i] /\ rs.rs1_recorder_array[i] = rs_in'.rs_recorder
RsWoken2(i) ==
    /\ rs_in'.rs_modify_recorder /\ rs.allocated_array[i]
    /\ rs.has_rs2_recorder_array[i] /\ rs.rs2_recorder_array[i] = rs_in'.rs_recorder

\* C18: an rs_write with rob_index = k presented on a tick where
\* allocated[k] = 1 writes no field of entry k or of any other entry: the
\* fields an allocation sets keep their values, the operand values and
\* waiting flags change on that tick only through wake-up, and the allocated
\* bits only through issue or clear.
C18_RsOccupiedSlot ==
    [][ (rs_in'.rs_write /\ rs.allocated_array[rs_in'.rob_index]) =>
          /\ ~rs_out'.alloc
          /\ rs'.rob_index_array = rs.rob_index_array
          /\ rs'.has_rs1_array = rs.has_rs1_array
          /\ rs'.has_rs2_array = rs.has_rs2_array
          /\ rs'.rs1_recorder_array = rs.rs1_recorder_array
          /\ rs'.rs2_recorder_array = rs.rs2_recorder_array
          /\ rs'.alu_type_array = rs.alu_type_array
          /\ \A i \in RsIdx :
                /\ rs'.has_rs1_recorder_array[i] =
                      (rs.has_rs1_recorder_array[i] /\ ~RsWoken1(i))
                /\ rs'.rs1_value_array[i] =
                      (IF RsWoken1(i) THEN rs_in'.rs_modify_value ELSE rs.rs1_value_array[i])
                /\ rs'.has_rs2_recorder_array[i] =
                      (rs.has_rs2_recorder_array[i] /\ ~RsWoken2(i))
                /\ rs'.rs2_value_array[i] =
                      (IF RsWoken2(i) THEN rs_in'.rs_modify_value ELSE rs.rs2_value_array[i])
                /\ rs'.allocated_array[i] =
                      (/\ rs.allocated_array[i] /\ ~rs_in'.clear
                       /\ ~(rs_out'.send /\ i = rs_out'.send_index)
                       /\ ~(rs_out'.send_to_mul /\ i = rs_out'.send_index_to_mul))
      ]_vars

\* the latest tick (no broadcast, no flush) presented an rs_write of an
\* instruction with ready operands to the occupied slot 5, whose entry still
\* waits on its producers
C18_Witness ==
    /\ unit = "RS" /\ tick >= 1
    /\ rs_in.rs_write /\ rs_in.rob_index = 5 /\ ~rs_out.alloc
    /\ ~rs_in.clear /\ ~rs_in.rs_modify_recorder
    /\ ~rs_in.rs1_has_recorder /\ ~rs_in.rs2_has_recorder
    /\ rs.allocated_array[5]
    /\ rs.has_rs1_recorder_array[5] /\ rs.has_rs2_recorder_array[5]
    /\ rs.rs2_recorder_array[5] # rs_in.rs2_recorder

\* the fields of LSQ entry i that only an allocation writes
LsqEntryFields(q, i) ==
    << q.rob_index_array[i], q.is_load_array[i], q.is_store_array[i],
       q.has_rs1_array[i], q.has_rs2_array[i],
       q.rs1_recorder_array[i], q.rs2_recorder_array[i] >>

\* C19: an LSQ allocation is accepted exactly when lsq_write and not clear
\* and size + 1 # 8; an lsq_write presented when size = 7 is dropped: tail is
\* unchanged, no field of an entry is written and size is not incremented,
\* so the LSQ never holds more than 7 allocated entries and an allocation
\* never overwrites a live entry.
C19_LsqFullGate ==
    [][ /\ lsq_out'.write_valid <=>
              (lsq_in'.lsq_write /\ ~lsq_in'.clear /\ lsq.lsq_size + 1 # 8)
        /\ (lsq_in'.lsq_write /\ ~lsq_in'.clear /\ lsq.lsq_size = 7) =>
              /\ lsq'.tail = lsq.tail
              /\ lsq'.lsq_size <= lsq.lsq_size
              /\ \A i \in LsqIdx :
                    /\ LsqEntryFields(lsq', i) = LsqEntryFields(lsq, i)
                    /\ ~lsq.allocated_array[i] => ~lsq'.allocated_array[i]
                    /\ ~lsq_in'.lsq_modify_recorder =>
                          /\ lsq'.rs1_value_array[i] = lsq.rs1_value_array[i]
                          /\ lsq'.rs2_value_array[i] = lsq.rs2_value_array[i]
                          /\ lsq'.ready_array[i] = lsq.ready_array[i]
        /\ lsq_out'.write_valid =>
              /\ ~lsq.allocated_array[LSQ_tail_idx(lsq)]
              /\ lsq'.allocated_array[LSQ_tail_idx(lsq)]
        /\ Cardinality({i \in LsqIdx : lsq'.allocated_array[i]}) <= 7
      ]_vars

\* the latest tick (no flush, no issue) presented a load to a queue of seven
\* stores: the queue still holds the seven stores and nothing else
C19_Witness ==
    /\ unit = "LSQ" /\ tick >= 1
    /\ lsq_in.lsq_write /\ ~lsq_in.clear /\ ~lsq_out.write_valid
    /\ lsq_in.is_load /\ ~lsq_out.execute_valid
    /\ lsq.lsq_size = 7 /\ lsq.tail = 7 /\ lsq.head = 0
    /\ \A i \in 0 .. 6 : lsq.allocated_array[i] /\ lsq.is_store_array[i]
    /\ ~lsq.allocated_array[7]

\* C20: a load at the LSQ head that is allocated and ready issues on that
\* very tick whenever clear = 0, for every value of rob_head_index: the
\* cache is read and not written, the retirement signal is 1 and the head is
\* dequeued; the ROB head never holds a load back.
C20_LoadIssues ==
    [][ LET h == LSQ_head_idx(lsq)
        IN (/\ lsq.allocated_array[h] /\ lsq.ready_array[h]
            /\ lsq.is_load_array[h] /\ ~lsq.is_store_array[h]
            /\ ~lsq_in'.clear) =>
              /\ lsq_out'.execute_valid
              /\ lsq_out'.dcache_re /\ ~lsq_out'.dcache_we
              /\ lsq_out'.rob_index_ret = lsq.rob_index_array[h]
              /\ ~lsq'.allocated_array[h]
              /\ lsq'.head = (lsq.head + 1) % 8
      ]_vars

\* the latest tick issued the load at the head while the ROB head named
\* another instruction
C20_Witness ==
    /\ unit = "LSQ" /\ tick >= 1 /\ ~lsq_in.clear
    /\ lsq_out.execute_valid /\ lsq_out.dcache_re /\ ~lsq_out.dcache_we
    /\ lsq_out.rob_index_ret # lsq_in.rob_head_index
    /\ ~lsq.allocated_array[lsq_out.head_idx]
    /\ lsq.is_load_array[lsq_out.head_idx]
    /\ lsq.head = (lsq_out.head_idx + 1) % 8
----------------------------------------------------------------------------
(* Properties of the timing of forwarding and of the flush *)

\* operand X of entry i of r is pending: used, and waiting for its producer
RsPending1(r, i) == r.has_rs1_array[i] /\ r.has_rs1_recorder_array[i]
RsPending2(r, i) == r.has_rs2_array[i] /\ r.has_rs2_recorder_array[i]
RsEntryReady(r, i) == r.allocated_array[i] /\ ~RsPending1(r, i) /\ ~RsPending2(r, i)

\* the broadcast of the coming tick satisfies every pending operand of the
\* waiting RS entry i
RsLastOperandsArrive(i) ==
    /\ rs.allocated_array[i] /\ ~RsEntryReady(rs, i)
    /\ rs_in'.rs_modify_recorder
    /\ RsPending1(rs, i) => rs.rs1_recorder_array[i] = rs_in'.rs_recorder
    /\ RsPending2(rs, i) => rs.rs2_recorder_array[i] = rs_in'.rs_recorder

RsIssued(i) ==
    \/ rs_out'.send /\ rs_out'.send_index = i
    \/ rs_out'.send_to_mul /\ rs_out'.send_index_to_mul = i

LsqPending(q, i) ==
    \/ q.has_rs1_array[i] /\ q.has_rs1_recorder_array[i]
    \/ q.has_rs2_array[i] /\ q.has_rs2_recorder_array[i]

\* the same for the waiting entry at the head of the LSQ
LsqLastOperandsArrive ==
    LET h == LSQ_head_idx(lsq)
    IN /\ lsq.allocated_array[h] /\ ~lsq.ready_array[h]
       /\ lsq_in'.lsq_modify_recorder
       /\ (lsq.has_rs1_array[h] /\ lsq.has_rs1_recorder_array[h])
              => lsq.rs1_recorder_array[h] = lsq_in'.lsq_recorder
       /\ (lsq.has_rs2_array[h] /\ lsq.has_rs2_recorder_array[h])
              => lsq.rs2_recorder_array[h] = lsq_in'.lsq_recorder

\* C21: selection and LSQ execution read the state the previous tick
\* committed.  An entry that waits for an operand, or whose slot is free,
\* before a tick is not issued on that tick; when the tick's broadcast
\* satisfies its last pending operands, or the tick allocates it with no
\* operand pending, it is operands-ready (RS) or has ready = 1 (LSQ head)
\* in the state the next tick reads; and the LSQ head entry with ready = 1
\* issues on the tick if clear = 0 and the store gate is satisfied.
C21_ForwardingTiming ==
    [][ /\ \A i \in RsIdx :
            /\ ~RsEntryReady(rs, i) => ~RsIssued(i)
            /\ (RsLastOperandsArrive(i) /\ ~rs_in'.clear) => RsEntryReady(rs', i)
            /\ (rs_out'.alloc /\ i = rs_in'.rob_index /\ ~rs_in'.clear
                    /\ ~(rs_in'.rs1_valid /\ RS_rs1_has_recorder(rs_in'))
                    /\ ~(rs_in'.rs2_valid /\ RS_rs2_has_recorder(rs_in')))
                  => RsEntryReady(rs', i)
        /\ LET h == LSQ_head_idx(lsq)
           IN /\ ~(lsq.allocated_array[h] /\ lsq.ready_array[h]) => ~lsq_out'.execute_valid
              /\ (LsqLastOperandsArrive /\ ~lsq_in'.clear) =>
                    /\ lsq'.allocated_array[h] /\ lsq'.ready_array[h]
                    /\ lsq'.head = lsq.head /\ ~LsqPending(lsq', h)
              /\ (lsq_out'.write_valid /\ lsq.lsq_size = 0) =>
                    /\ lsq'.allocated_array[h] /\ lsq'.head = lsq.head
                    /\ lsq'.ready_array[h] <=> ~LsqPending(lsq', h)
              /\ (/\ lsq.allocated_array[h] /\ lsq.ready_array[h] /\ ~lsq_in'.clear
                  /\ lsq.is_store_array[h] => lsq.rob_index_array[h] = lsq_in'.rob_head_index)
                    => lsq_out'.execute_valid
      ]_vars

\* the store at the head waited for both operands on one tag; the first free
\* tick broadcast the tag and issued nothing, the second issued the store
\* with the broadcast values
C21_Witness ==
    LET h == lsq_out.head_idx
    IN /\ unit = "LSQ" /\ tick = 2 /\ ~lsq_in.clear
       /\ lsq_out.execute_valid /\ lsq_out.dcache_we
       /\ lsq.is_store_array[h] /\ ~lsq.allocated_array[h]
       /\ lsq.rs1_recorder_array[h] = 2 /\ lsq.rs2_recorder_array[h] = 2
       /\ lsq.rs1_value_array[h] = LsqBroadcast(2).lsq_modify_value
       /\ lsq.rs2_value_array[h] = LsqBroadcast(2).lsq_modify_value
       /\ ~lsq_in.lsq_modify_recorder

\* C22: on any tick with clear = 1 nothing is issued or reported, whatever
\* is ready: the RS asserts neither the ALU valid nor the multiplier valid
\* and passes calc_type = ALU_NONE on both ports, the LSQ has
\* execute_valid = 0 (no cache write, no cache read, no retirement), and the
\* output valid of the divider is 0.
C22_FlushIssuesNothing ==
    /\ rs_in.clear =>
          /\ ~rs_out.send /\ ~rs_out.send_to_mul
          /\ rs_out.calc_type = ALU_NONE /\ rs_out.calc_type_to_mul = ALU_NONE
    /\ lsq_in.clear =>
          /\ ~lsq_out.execute_valid
          /\ ~lsq_out.dcache_we /\ ~lsq_out.dcache_re
    /\ div_in.clear => ~div.signal

\* the flush met an RS with entry 5 ready for the ALU and entry 2 ready for
\* the multiplier: neither valid was asserted
C22_Witness ==
    /\ unit = "RS" /\ rs_in.clear
    /\ rs_out.send_index = 5 /\ rs_out.send_index_to_mul = 2
    /\ ~rs_out.send /\ ~rs_out.send_to_mul
    /\ rs_out.calc_type = ALU_NONE /\ rs_out.calc_type_to_mul = ALU_NONE

\* the registers of the LSQ a flush writes
LsqFlushed == {"head", "tail", "lsq_size", "allocated_array"}

\* C23: on any tick with clear = 1 the LSQ writes no entry data: for every
\* entry the operand values, the waiting flags, ready and all metadata
\* fields are unchanged at the next tick, even when an lsq_write or a
\* broadcast matching a waiting entry is presented on that tick; only head,
\* tail, size and the allocated bits change.
C23_LsqFlushFrame ==
    [][ lsq_in'.clear =>
          \A f \in (DOMAIN lsq) \ LsqFlushed : lsq'[f] = lsq[f]
      ]_vars

\* the flush met an lsq_write and a broadcast of the tag the head entry
\* waited on: the entry, no longer allocated, still waits on the tag with
\* its old value
C23_Witness ==
    LET h == lsq_out.head_idx
    IN /\ unit = "LSQ" /\ lsq_in.clear
       /\ lsq_in.lsq_write /\ lsq_in.lsq_modify_recorder
       /\ lsq_out.allocated /\ ~lsq_out.ready /\ ~lsq.allocated_array[h]
       /\ lsq.has_rs1_array[h] /\ lsq.has_rs1_recorder_array[h]
       /\ lsq.rs1_recorder_array[h] = lsq_in.lsq_recorder
       /\ lsq.rs1_value_array[h] # lsq_in.lsq_modify_value
       /\ ~lsq.ready_array[h]
       /\ lsq_in.rob_index # lsq.rob_index_array[h]
----------------------------------------------------------------------------
(* Properties of the divider: pipelining, width of the partial remainder *)

\* the operations fed at least five ticks ago that no flush caught
DivDone ==
    { s \in 1 .. div_hist.fed :
        div_hist.at[s] + 5 <= div_hist.now /\ s \notin div_hist.flushed }

DivOutsOf(s) == { k \in 1 .. Len(div_hist.outs) : div_hist.outs[k].seq = s }

\* C24: the divider is fully pipelined.  With inputs on any ticks, up to
\* one per tick, every input that no flush catches produces exactly one
\* output, on the fourth tick after its own, outputs emerge in input order,
\* and the result, rob_index and pc + 4 of each output are those the
\* operation yields alone in an empty pipeline, whatever its neighbours are.
C24_DivPipelined ==
    /\ \A s \in DivDone :
          /\ Cardinality(DivOutsOf(s)) = 1
          /\ \A k \in DivOutsOf(s) :
                LET o  == div_hist.outs[k]
                    op == div_hist.ops[s]
                IN /\ o.tick = div_hist.at[s] + 4
                   /\ o.rob_index = op.rob_index
                   /\ o.pc_result = Add32(op.pc_addr, Wd(0, 4))
                   /\ o.result = DIV_alone(DivOpOf(op, op.get_remainder), DivIdle)
    /\ \A k \in 1 .. Len(div_hist.outs) :
          /\ div_hist.outs[k].seq \in DivDone
          /\ \A j \in 1 .. (k - 1) : div_hist.outs[j].seq < div_hist.outs[k].seq

\* three operations were fed on consecutive ticks and no flush came: the
\* first two have left in order, one tick apart, the second (-7 / 3) with
\* quotient -2 behind a division by zero, the third is in stage 4
C24_Witness ==
    /\ unit = "DIV" /\ div_hist.flushed = {}
    /\ div_hist.fed >= 3 /\ div_hist.at[1] = 0 /\ div_hist.at[2] = 1 /\ div_hist.at[3] = 2
    /\ Len(div_hist.outs) = 2
    /\ div_hist.outs[1].seq = 1 /\ div_hist.outs[1].tick = 4
    /\ div_hist.outs[2].seq = 2 /\ div_hist.outs[2].tick = 5
    /\ div_hist.ops[1].alu_b = Wd(0, 0)
    /\ div_hist.outs[2].result = Wd(65535, 65534)
    /\ div.stage4.valid /\ div.stage4.src.seq = 3

(* The iteration on a 33-bit partial remainder: r is bit 32 (`top`) and    *)
(* the 32 bits below it (`w`); the shift moves bit 31 into bit 32, the     *)
(* difference r - {0, d} is taken modulo 2^33 and its bit 32 is the borrow. *)
Wide(w) == [top |-> 0, w |-> w]

WideIteration(s) ==
    LET t1   == Bit31(s.r.w)
        w1   == Or1(Shl1(s.r.w), Shr31And1(s.q))
        dif  == Sub33(w1, s.d)
        d32  == (t1 + dif.top) % 2
    IN [ r |-> IF d32 = 0 THEN Wide(dif.diff) ELSE [top |-> t1, w |-> w1],
         q |-> IF d32 = 0 THEN Or1(Shl1(s.q), Wd(0, 1)) ELSE Shl1(s.q),
         d |-> s.d ]

RECURSIVE WideIterations(_, _)
WideIterations(n, s) ==
    IF n = 0 THEN s
    ELSE LET t == WideIteration(s)
         IN IF t.d = s.d THEN WideIterations(n - 1, t) ELSE s

\* in each of the next n iterations the remainder is below 2^31 before the
\* shift
RECURSIVE PreShiftBelow(_, _)
PreShiftBelow(n, s) ==
    IF n = 0 THEN TRUE
    ELSE IF Bit31(s.r) = 1 THEN FALSE
    ELSE PreShiftBelow(n - 1, DIV_iteration(s))

\* the iteration state stage 1 latches for the operation src
DivStart(src) ==
    [ r |-> Wd(0, 0), q |-> DIV_dividend_abs(DivOpOf(src, 0)),
      d |-> DIV_divisor_abs(DivOpOf(src, 0)) ]

DivRegs(st) == [r |-> st.remainder, q |-> st.quotient, d |-> st.divisor]

DivWideRegs(s) == [r |-> s.r.w, q |-> s.q, d |-> s.d]

DivStartWide(src) == [DivStart(src) EXCEPT !.r = Wide(Wd(0, 0))]

\* C26: for every dividend and divisor, in each of the 32 iterations the
\* remainder register is below 2^31 before the shift, so the 32-bit shift
\* loses no bit, and the registers after 16 and after 32 iterations hold
\* the quotient and the remainder of the iteration on a 33-bit partial
\* remainder, whose bit 32 is 0.
C26_DivRemainderWidth ==
    /\ div.stage1.valid => PreShiftBelow(DIV_ITERS, DivRegs(div.stage1))
    /\ div.stage2.valid =>
          /\ PreShiftBelow(DIV_ITERS, DivRegs(div.stage2))
          /\ LET w == WideIterations(DIV_ITERS, DivStartWide(div.stage2.src))
             IN w.r.top = 0 /\ DivRegs(div.stage2) = DivWideRegs(w)
    /\ div.stage3.valid =>
          LET w == WideIterations(2 * DIV_ITERS, DivStartWide(div.stage3.src))
          IN w.r.top = 0 /\ DivRegs(div.stage3) = DivWideRegs(w)

\* 0xFFFFFFFF / 0x80000001 unsigned has left the iterations: quotient 1,
\* remainder 0x7FFFFFFE; the last iteration shifted 0x7FFFFFFF to
\* 0xFFFFFFFF and subtracted
C26_Witness ==
    /\ unit = "DIV" /\ div.stage3.valid
    /\ div.stage3.src.alu_a = Wd(65535, 65535) /\ div.stage3.src.alu_b = Wd(32768, 1)
    /\ div.stage3.src.rs1_sign = 0 /\ div.stage3.src.rs2_sign = 0
    /\ div.stage3.quotient = Wd(0, 1) /\ div.stage3.remainder = Wd(32767, 65534)
    /\ div.stage2.remainder = Wd(0, 65535)
----------------------------------------------------------------------------
(* Properties of the wake-up frame and of the liveness of the RS *)

\* operand X of entry i keeps its waiting flag and its value over the tick
RsKeeps1(i) ==
    /\ rs'.has_rs1_recorder_array[i] = rs.has_rs1_recorder_array[i]
    /\ rs'.rs1_value_array[i] = rs.rs1_value_array[i]
RsKeeps2(i) ==
    /\ rs'.has_rs2_recorder_array[i] = rs.has_rs2_recorder_array[i]
    /\ rs'.rs2_value_array[i] = rs.rs2_value_array[i]
LsqKeeps1(i) ==
    /\ lsq'.has_rs1_recorder_array[i] = lsq.has_rs1_recorder_array[i]
    /\ lsq'.rs1_value_array[i] = lsq.rs1_value_array[i]
LsqKeeps2(i) ==
    /\ lsq'.has_rs2_recorder_array[i] = lsq.has_rs2_recorder_array[i]
    /\ lsq'.rs2_value_array[i] = lsq.rs2_value_array[i]

\* C25: a broadcast with tag T changes only the operands that wait on T.
\* In the RS and in the LSQ, over every tick, an operand of an allocated
\* entry with has_rsX_recorder = 0 keeps its value and its flag even if its
\* stale rsX_recorder equals T, an operand that waits on another tag keeps
\* has_rsX_recorder = 1 and its value, and the operands of a free slot are
\* written only by the allocation of the slot.
C25_WakeUpFrame ==
    [][ /\ \A i \in RsIdx :
            LET bc1 == rs_in'.rs_modify_recorder /\ rs.rs1_recorder_array[i] = rs_in'.rs_recorder
                bc2 == rs_in'.rs_modify_recorder /\ rs.rs2_recorder_array[i] = rs_in'.rs_recorder
                new == rs_out'.alloc /\ i = rs_in'.rob_index
            IN /\ rs.allocated_array[i] =>
                    /\ ~rs.has_rs1_recorder_array[i] => RsKeeps1(i)
                    /\ ~rs.has_rs2_recorder_array[i] => RsKeeps2(i)
                    /\ (rs.has_rs1_recorder_array[i] /\ ~bc1) => RsKeeps1(i)
                    /\ (rs.has_rs2_recorder_array[i] /\ ~bc2) => RsKeeps2(i)
               /\ (~rs.allocated_array[i] /\ ~new) => (RsKeeps1(i) /\ RsKeeps2(i))
        /\ \A i \in LsqIdx :
            LET bc1 == lsq_in'.lsq_modify_recorder
                          /\ lsq.rs1_recorder_array[i] = lsq_in'.lsq_recorder
                bc2 == lsq_in'.lsq_modify_recorder
                          /\ lsq.rs2_recorder_array[i] = lsq_in'.lsq_recorder
                new == lsq_out'.write_valid /\ i = LSQ_tail_idx(lsq)
            IN /\ lsq.allocated_array[i] =>
                    /\ ~lsq.has_rs1_recorder_array[i] => LsqKeeps1(i)
                    /\ ~lsq.has_rs2_recorder_array[i] => LsqKeeps2(i)
                    /\ (lsq.has_rs1_recorder_array[i] /\ ~bc1) => LsqKeeps1(i)
                    /\ (lsq.has_rs2_recorder_array[i] /\ ~bc2) => LsqKeeps2(i)
               /\ (~lsq.allocated_array[i] /\ ~new) => (LsqKeeps1(i) /\ LsqKeeps2(i))
      ]_vars

\* the latest tick (no flush) broadcast a tag T: a resident load whose
\* present operand has the stale recorder T kept its value, and a resident
\* store woke on rs1 and still waits on another tag for rs2 with its value
C25_Witness ==
    /\ unit = "LSQ" /\ tick >= 1
    /\ lsq_in.lsq_modify_recorder /\ ~lsq_in.clear /\ ~lsq_in.lsq_write
    /\ \E i \in LsqIdx :
          /\ lsq.allocated_array[i] /\ lsq.is_load_array[i]
          /\ ~lsq.has_rs1_recorder_array[i]
          /\ lsq.rs1_recorder_array[i] = lsq_in.lsq_recorder
          /\ lsq.rs1_value_array[i] = L_ready.rs1_value
          /\ lsq.rs1_value_array[i] # lsq_in.lsq_modify_value
    /\ \E j \in LsqIdx :
          /\ lsq.allocated_array[j] /\ lsq.is_store_array[j]
          /\ ~lsq.has_rs1_recorder_array[j]
          /\ lsq.rs1_value_array[j] = lsq_in.lsq_modify_value
          /\ lsq.has_rs2_recorder_array[j]
          /\ lsq.rs2_recorder_array[j] # lsq_in.lsq_recorder
          /\ lsq.rs2_value_array[j] # lsq_in.lsq_modify_value

\* the latest tick allocated a slot above i for the port entry i goes to
RsAllocAbove(i) ==
    /\ rs_out.alloc /\ rs_in.rob_index > i
    /\ (rs_in.alu = ALU_MUL) <=> (rs.alu_type_array[i] = ALU_MUL)

\* C27 as stated: if clear is never asserted, every RS entry that is
\* allocated and operands-ready is eventually issued and deallocated, for
\* every pattern of later allocations into other slots.
C27_RsIssueLiveness ==
    \A i \in RsIdx : RsEntryReady(rs, i) ~> ~rs.allocated_array[i]

\* C27, amended: if clear is never asserted and from some tick on no entry
\* is allocated into a higher-indexed slot of the same port, every RS entry
\* that is allocated and operands-ready is eventually issued and
\* deallocated.
C27_RsIssueLivenessBelow ==
    \A i \in RsIdx :
        (<>[](~RsAllocAbove(i))) => (RsEntryReady(rs, i) ~> ~rs.allocated_array[i])

\* the latest tick issued the ready addition of slot 1, the lowest of the
\* ALU entries, while slot 7 above it was being allocated and the
\* multiplication of slot 3 went on waiting
C27_Witness ==
    /\ unit = "RS" /\ script = << >>
    /\ rs_out.send /\ rs_out.send_index = 1 /\ ~rs.allocated_array[1]
    /\ rs_in.rs_write /\ rs_in.rob_index = 7 /\ rs_out.alloc
    /\ rs.allocated_array[7]
    /\ rs.allocated_array[3] /\ rs.has_rs2_recorder_array[3]
====
